---- MODULE Spec2Model ----
(***************************************************************************)
(* midistage: the cue store (src/src/core/setlists.js), the machines store *)
(* (src/src/core/machines.js), the MIDI driver contract                    *)
(* (src/unnamed/part_006) and the recall engine (src/src/core/model.js).   *)
(*                                                                         *)
(* Conventions.  JS null/undefined of an optional number or list is None   *)
(* (the empty tuple) and a present value v is Some(v).  A null id is       *)
(* NullId (0) for setlist/entry ids, which makeId() draws fresh and which  *)
(* are numbered here in order of creation, and NoMachine ("") for a        *)
(* machine id.  Array indexes are 1-based, 0 standing for findIndex's -1.  *)
(* Names of setlists and entries, and the route fields that                *)
(* normalizeRoute only copies (midnamFile, deviceName, bankName, msb, lsb, *)
(* patchName) take part in no branch modelled here and are left out.       *)
(***************************************************************************)
EXTENDS Integers, Sequences, FiniteSets, TLC

VARIABLES
    setlists,         \* SetlistsStore.data.setlists
    activeId,         \* SetlistsStore.data.activeId
    disk,             \* the document at the store path, as last saved
    tmpFile,          \* the file at the store path + ".tmp": None when there
                      \* is none, else Some of what was written to it
    draft,            \* Model.draft.routes
    currentEntryId,   \* Model.currentEntryId
    currentMenu,      \* Model.currentMenu
    machinesActiveId, \* MachinesStore.data.activeId
    nextId,           \* number of ids makeId() has handed out, plus one
    ret,              \* the last call: its name, arguments and return value
                      \* (and, of a navigation by delta, where it started)
    midiOut,          \* the MidiDispatch calls the last call made, in order
    emitted,          \* the display events the last call emitted, in order
    timers,           \* the events the engine's pending timers will emit, in
                      \* the order the timers were set
    remote            \* the RemoteDevice: its fields, its drain loop, its port

vars == <<setlists, activeId, disk, tmpFile, draft, currentEntryId, currentMenu,
          machinesActiveId, nextId, ret, midiOut, emitted, timers, remote>>

-----------------------------------------------------------------------------
(* Bounds of the model *)

MaxSetlists == 2
MaxEntries == 3
MaxIds == 4
MaxRouteEntries == 2
MaxStoredRoutes == 2
MaxRecallEntries == 1
MaxRecallRoutes == 3

-----------------------------------------------------------------------------
(* Values *)

None == <<>>
Some(x) == <<x>>
NullId == 0
NoMachine == ""

Field(r, f) == IF f \in DOMAIN r THEN r[f] ELSE None

Min(a, b) == IF a < b THEN a ELSE b
Max(a, b) == IF a > b THEN a ELSE b

MidiMax == 127
MaxCCSlots == 4

Clamp7(n) == Max(0, Min(MidiMax, n))

RemoveAt(s, i) == SubSeq(s, 1, i - 1) \o SubSeq(s, i + 1, Len(s))
InsertAt(s, i, x) == SubSeq(s, 1, i - 1) \o <<x>> \o SubSeq(s, i, Len(s))

\* Array.prototype.findIndex on the id / machineId field; 0 when absent
IndexOfId(seq, id) ==
    IF \E i \in 1..Len(seq) : seq[i].id = id
    THEN CHOOSE i \in 1..Len(seq) :
             seq[i].id = id /\ \A j \in 1..(i - 1) : seq[j].id # id
    ELSE 0

IndexOfMachine(routes, machineId) ==
    IF \E i \in 1..Len(routes) : routes[i].machineId = machineId
    THEN CHOOSE i \in 1..Len(routes) :
             /\ routes[i].machineId = machineId
             /\ \A j \in 1..(i - 1) : routes[j].machineId # machineId
    ELSE 0

-----------------------------------------------------------------------------
(* setlists.js: normalisation *)

HotkeyLetters == {"A", "B", "C", "D", "E", "F", "G", "H"}

\* String.prototype.toUpperCase on the one-character keys the model uses
ToUpperCase(k) ==
    CASE k = "a" -> "A"
      [] k = "b" -> "B"
      [] OTHER -> k

\* null when the key is not one letter A..H
normalizeHotkey(k) ==
    LET key == ToUpperCase(k)
    IN  IF key \in HotkeyLetters THEN key ELSE ""

normalizeCCSlots(src) ==
    LET arr == [i \in 1..Len(src) |->
                   [cc |-> Clamp7(src[i].cc), value |-> Clamp7(src[i].value)]]
    IN  SubSeq(arr, 1, Min(Len(arr), MaxCCSlots))

normalizeRoute(r) ==
    LET given == IF Field(r, "ccSlots") # None THEN r.ccSlots
                 ELSE IF Field(r, "cc") # None THEN r.cc
                 ELSE Field(r, "ccs")
    IN  [machineId |-> IF "machineId" \in DOMAIN r THEN r.machineId ELSE NoMachine,
         program   |-> Field(r, "program"),
         ccSlots   |-> IF given # None THEN Some(normalizeCCSlots(given[1]))
                       ELSE None]

\* routesAt names the array object that holds the routes: routes.map makes
\* a new array for each entry it normalizes
normalizeEntry(id, routes) ==
    [id |-> id, routes |-> [i \in 1..Len(routes) |-> normalizeRoute(routes[i])],
     routesAt |-> id]

normalizeSetlist(id) ==
    [id |-> id, entries |-> <<>>, hotkeys |-> [k \in HotkeyLetters |-> NullId]]

-----------------------------------------------------------------------------
(* setlists.js: SetlistsStore.  d is this.data; every operation returns the  *)
(* new data, its return value and whether it called save().                 *)

Done(d, r) == [data |-> d, ret |-> r, saved |-> TRUE]
Refused(d, r) == [data |-> d, ret |-> r, saved |-> FALSE]

getById(d, id) == IndexOfId(d.setlists, id)

\* e.routes changed in place (push, splice, e.routes[idx] = r): every entry
\* that holds the same array object shows the change
setRoutes(d, si, ei, routes) ==
    LET at == d.setlists[si].entries[ei].routesAt
    IN  [d EXCEPT !.setlists =
            [i \in 1..Len(@) |->
                [@[i] EXCEPT !.entries =
                    [j \in 1..Len(@) |->
                        IF @[j].routesAt = at THEN [@[j] EXCEPT !.routes = routes]
                        ELSE @[j]]]]]

getEntry(d, setlistId, entryId) ==
    LET si == getById(d, setlistId)
    IN  IF si = 0 THEN 0 ELSE IndexOfId(d.setlists[si].entries, entryId)

setActive(d, id) ==
    IF getById(d, id) = 0 THEN Refused(d, FALSE)
    ELSE Done([d EXCEPT !.activeId = id], TRUE)

ensureDefaultSetlist(d, id) ==
    IF getById(d, d.activeId) # 0 THEN Refused(d, d.activeId)
    ELSE Done([setlists |-> Append(d.setlists, normalizeSetlist(id)),
               activeId |-> id], id)

addSetlist(d, id) ==
    Done([setlists |-> Append(d.setlists, normalizeSetlist(id)),
          activeId |-> IF d.activeId = NullId THEN id ELSE d.activeId], id)

\* a removeSetlist that leaves the active id as it was
removeSetlistKeeping(d, id) ==
    LET idx == getById(d, id)
    IN  IF idx = 0 THEN Refused(d, FALSE)
        ELSE Done([d EXCEPT !.setlists = RemoveAt(@, idx)], TRUE)

removeSetlist(d, id) ==
    LET idx == getById(d, id)
        rest == RemoveAt(d.setlists, idx)
    IN  IF idx = 0 THEN Refused(d, FALSE)
        ELSE Done([setlists |-> rest,
                   activeId |-> IF d.activeId = id
                                THEN (IF Len(rest) > 0 THEN rest[1].id ELSE NullId)
                                ELSE d.activeId], TRUE)

addEntry(d, setlistId, id, routes) ==
    LET si == getById(d, setlistId)
    IN  IF si = 0 THEN Refused(d, NullId)
        ELSE Done([d EXCEPT !.setlists[si].entries =
                                Append(@, normalizeEntry(id, routes))], id)

\* a removal that leaves the hotkeys alone
removeEntryKeepingHotkeys(d, setlistId, entryId) ==
    LET si == getById(d, setlistId)
        idx == getEntry(d, setlistId, entryId)
    IN  IF si = 0 \/ idx = 0 THEN Refused(d, FALSE)
        ELSE Done([d EXCEPT !.setlists[si].entries = RemoveAt(@, idx)], TRUE)

removeEntry(d, setlistId, entryId) ==
    LET si == getById(d, setlistId)
        idx == getEntry(d, setlistId, entryId)
    IN  IF si = 0 \/ idx = 0 THEN Refused(d, FALSE)
        ELSE Done([d EXCEPT
                      !.setlists[si].entries = RemoveAt(@, idx),
                      !.setlists[si].hotkeys =
                          [k \in HotkeyLetters |->
                              IF @[k] = entryId THEN NullId ELSE @[k]]], TRUE)

\* a move that takes the target index in the list before the removal
moveEntryShifted(d, setlistId, entryId, delta) ==
    LET si == getById(d, setlistId)
        idx == getEntry(d, setlistId, entryId)
        es == d.setlists[si].entries
        next == Max(1, Min(Len(es), idx + delta))
    IN  IF si = 0 \/ idx = 0 THEN Refused(d, FALSE)
        ELSE IF next = idx THEN Refused(d, TRUE)
        ELSE Done([d EXCEPT !.setlists[si].entries =
                       InsertAt(RemoveAt(es, idx),
                                IF next > idx THEN next - 1 ELSE next, es[idx])], TRUE)

moveEntry(d, setlistId, entryId, delta) ==
    LET si == getById(d, setlistId)
        idx == getEntry(d, setlistId, entryId)
        es == d.setlists[si].entries
        next == Max(1, Min(Len(es), idx + delta))
    IN  IF si = 0 \/ idx = 0 THEN Refused(d, FALSE)
        ELSE IF next = idx THEN Refused(d, TRUE)
        ELSE Done([d EXCEPT !.setlists[si].entries =
                                InsertAt(RemoveAt(es, idx), next, es[idx])], TRUE)

\* a duplicateEntry whose copy holds the routes array of its source
duplicateEntryShallow(d, setlistId, entryId, id) ==
    LET si == getById(d, setlistId)
        idx == getEntry(d, setlistId, entryId)
    IN  IF si = 0 \/ idx = 0 THEN Refused(d, NullId)
        ELSE Done([d EXCEPT !.setlists[si].entries =
                       Append(@, [@[idx] EXCEPT !.id = id])], id)

\* the copy is normalizeEntry of a literal whose routes are shallow copies of
\* the source's routes: normalizeRoute and normalizeCCSlots build every
\* route and every CC slot anew
duplicateEntry(d, setlistId, entryId, id) ==
    LET si == getById(d, setlistId)
        idx == getEntry(d, setlistId, entryId)
    IN  IF si = 0 \/ idx = 0 THEN Refused(d, NullId)
        ELSE Done([d EXCEPT !.setlists[si].entries =
                       Append(@, normalizeEntry(id, @[idx].routes))], id)

\* a store whose upsert never looks for the machineId: it always appends
upsertRouteAppending(d, setlistId, entryId, route) ==
    LET si == getById(d, setlistId)
        ei == getEntry(d, setlistId, entryId)
        r == normalizeRoute(route)
    IN  IF ei = 0 THEN Refused(d, FALSE)
        ELSE IF r.machineId = NoMachine THEN Refused(d, FALSE)
        ELSE Done(setRoutes(d, si, ei,
                            Append(d.setlists[si].entries[ei].routes, r)), TRUE)

\* a store whose upsert replaces the whole Route, CC slots included
upsertRouteReplacing(d, setlistId, entryId, route) ==
    LET si == getById(d, setlistId)
        ei == getEntry(d, setlistId, entryId)
        r == normalizeRoute(route)
        routes == d.setlists[si].entries[ei].routes
        idx == IndexOfMachine(routes, r.machineId)
    IN  IF ei = 0 THEN Refused(d, FALSE)
        ELSE IF r.machineId = NoMachine THEN Refused(d, FALSE)
        ELSE Done(setRoutes(d, si, ei, IF idx > 0 THEN [routes EXCEPT ![idx] = r]
                                       ELSE Append(routes, r)), TRUE)

upsertRoute(d, setlistId, entryId, route) ==
    LET si == getById(d, setlistId)
        ei == getEntry(d, setlistId, entryId)
        r == normalizeRoute(route)
        routes == d.setlists[si].entries[ei].routes
        idx == IndexOfMachine(routes, r.machineId)
        kept == IF r.ccSlots = None /\ routes[idx].ccSlots # None
                THEN [r EXCEPT !.ccSlots = routes[idx].ccSlots]
                ELSE r
    IN  IF ei = 0 THEN Refused(d, FALSE)
        ELSE IF r.machineId = NoMachine THEN Refused(d, FALSE)
        ELSE Done(setRoutes(d, si, ei, IF idx > 0 THEN [routes EXCEPT ![idx] = kept]
                                       ELSE Append(routes, r)), TRUE)

removeRoute(d, setlistId, entryId, machineId) ==
    LET si == getById(d, setlistId)
        ei == getEntry(d, setlistId, entryId)
        routes == d.setlists[si].entries[ei].routes
        idx == IndexOfMachine(routes, machineId)
    IN  IF ei = 0 THEN Refused(d, FALSE)
        ELSE IF idx = 0 THEN Refused(d, FALSE)
        ELSE Done(setRoutes(d, si, ei, RemoveAt(routes, idx)), TRUE)

\* an assignment that does not look for a letter the entry already holds
assignHotkeyUnchecked(d, setlistId, key, entryId) ==
    LET si == getById(d, setlistId)
        hk == normalizeHotkey(key)
        s == d.setlists[si]
    IN  IF si = 0 THEN Refused(d, FALSE)
        ELSE IF hk = "" THEN Refused(d, FALSE)
        ELSE IF IndexOfId(s.entries, entryId) = 0 THEN Refused(d, FALSE)
        ELSE Done([d EXCEPT !.setlists[si].hotkeys[hk] = entryId], TRUE)

assignHotkey(d, setlistId, key, entryId) ==
    LET si == getById(d, setlistId)
        hk == normalizeHotkey(key)
        s == d.setlists[si]
        alreadyAssigned == \E k \in HotkeyLetters :
                               s.hotkeys[k] = entryId /\ k # hk
    IN  IF si = 0 THEN Refused(d, FALSE)
        ELSE IF hk = "" THEN Refused(d, FALSE)
        ELSE IF IndexOfId(s.entries, entryId) = 0 THEN Refused(d, FALSE)
        ELSE IF alreadyAssigned THEN Refused(d, FALSE)
        ELSE Done([d EXCEPT !.setlists[si].hotkeys[hk] = entryId], TRUE)

removeHotkey(d, setlistId, key) ==
    LET si == getById(d, setlistId)
        hk == normalizeHotkey(key)
    IN  IF si = 0 THEN Refused(d, FALSE)
        ELSE IF hk = "" THEN Refused(d, FALSE)
        ELSE IF d.setlists[si].hotkeys[hk] = NullId THEN Refused(d, FALSE)
        ELSE Done([d EXCEPT !.setlists[si].hotkeys[hk] = NullId], TRUE)

clearHotkeys(d, setlistId) ==
    LET si == getById(d, setlistId)
    IN  IF si = 0 THEN Refused(d, FALSE)
        ELSE Done([d EXCEPT !.setlists[si].hotkeys =
                                [k \in HotkeyLetters |-> NullId]], TRUE)

getHotkeyForEntry(d, setlistId, entryId) ==
    LET si == getById(d, setlistId)
        held == {k \in HotkeyLetters : d.setlists[si].hotkeys[k] = entryId}
    IN  IF si = 0 \/ held = {} THEN ""
        ELSE CHOOSE k \in held : TRUE

\* what is left of a document when the process ends while writing it
Torn == [torn |-> TRUE]

\* the files after a save that writes the document over the one at the store
\* path
writeJsonInPlace(files, doc, crashAt) ==
    IF crashAt = "writing" THEN [files EXCEPT !.file = Torn]
    ELSE [files EXCEPT !.file = doc]

\* safeWriteJson: files.file is the file at the store path and files.tmp the
\* one beside it; writeFileSync fills the temporary file, renameSync puts it
\* in the place of the other in one step.  The process may end while it
\* writes (crashAt "writing"), or between the write and the rename
\* ("written"), or not at all ("never").
safeWriteJson(files, doc, crashAt) ==
    IF crashAt = "writing" THEN [files EXCEPT !.tmp = Some(Torn)]
    ELSE IF crashAt = "written" THEN [files EXCEPT !.tmp = Some(doc)]
    ELSE [file |-> doc, tmp |-> None]

\* safeReadJson: the fallback when JSON.parse throws
safeReadJson(file) ==
    IF file = Torn THEN [setlists |-> <<>>, activeId |-> NullId] ELSE file

\* a load that makes the first setlist the active one
loadFirstActive(raw) ==
    LET ss == [i \in 1..Len(raw.setlists) |->
                  [raw.setlists[i] EXCEPT !.entries =
                      [j \in 1..Len(@) |-> normalizeEntry(@[j].id, @[j].routes)]]]
    IN  [setlists |-> ss, activeId |-> IF ss # <<>> THEN ss[1].id ELSE NullId]

\* SetlistsStore.load of the document raw that safeReadJson returned: every
\* setlist, entry and route is normalised again, and an active id that names
\* no setlist is replaced by the first setlist's
load(raw) ==
    LET ss == [i \in 1..Len(raw.setlists) |->
                  [raw.setlists[i] EXCEPT !.entries =
                      [j \in 1..Len(@) |-> normalizeEntry(@[j].id, @[j].routes)]]]
    IN  [setlists |-> ss,
         activeId |-> IF raw.activeId # NullId /\ IndexOfId(ss, raw.activeId) = 0
                      THEN IF ss # <<>> THEN ss[1].id ELSE NullId
                      ELSE raw.activeId]

-----------------------------------------------------------------------------
(* machines.js: the configured machines.  Machine configuration is not      *)
(* edited in this model: two machines are configured, "m1" on channel 1     *)
(* whose port slot holds a physical output, and "m2" on channel 3 whose     *)
(* slot is empty and which has no legacy output name.  A route may also     *)
(* name "m3", a machine that is not (or no longer) configured.              *)

Machines ==
    << [id |-> "m1", channel |-> 1, outSlot |-> Some(1), out |-> None],
       [id |-> "m2", channel |-> 3, outSlot |-> Some(2), out |-> None] >>

MachineIds == {Machines[i].id : i \in 1..Len(Machines)}

machinesGetById(id) == IndexOfId(Machines, id)

machinesGetActive(active) == machinesGetById(active)

\* MidiPortsStore.getPort: the physical output of a slot, or null
getPort(slot) == IF slot = 1 THEN Some("USB MIDI 1") ELSE None

\* Model.resolveMachineOut; mi = 0 is a null machine
resolveMachineOut(mi) ==
    IF mi = 0 THEN None
    ELSE IF Machines[mi].outSlot # None /\ getPort(Machines[mi].outSlot[1]) # None
         THEN getPort(Machines[mi].outSlot[1])
    ELSE Machines[mi].out

-----------------------------------------------------------------------------
(* model.js: the Draft *)

\* Model.snapshotSelectionForSetlist: patch is the selected list item, None
\* when the selection is invalid or no instrument is loaded
snapshotSelectionForSetlist(active, patch) ==
    IF patch = None THEN None
    ELSE IF patch[1].program = None THEN None
    ELSE Some([machineId |-> IF machinesGetActive(active) = 0 THEN "default"
                             ELSE Machines[machinesGetActive(active)].id,
               channel   |-> IF machinesGetActive(active) = 0 THEN 1
                             ELSE Machines[machinesGetActive(active)].channel,
               program   |-> patch[1].program])

\* the Draft's routes after Model.draftUpsertFromCurrentSelection accepted snap
draftUpsert(routes, snap) ==
    LET idx == IndexOfMachine(routes, snap.machineId)
    IN  IF idx > 0 THEN [routes EXCEPT ![idx] = snap] ELSE Append(routes, snap)

-----------------------------------------------------------------------------
(* model.js: pasteDraftIntoEntry *)

\* String(n) of a MIDI channel
ChannelText(n) ==
    CASE n = 1 -> "1" [] n = 2 -> "2" [] n = 3 -> "3" [] n = 4 -> "4"
      [] n = 5 -> "5" [] n = 6 -> "6" [] n = 7 -> "7" [] n = 8 -> "8"
      [] n = 9 -> "9" [] n = 10 -> "10" [] n = 11 -> "11" [] n = 12 -> "12"
      [] n = 13 -> "13" [] n = 14 -> "14" [] n = 15 -> "15" [] n = 16 -> "16"

\* `${r.machineId}_${r.channel || 1}`: a stored route has no channel field
RouteKey(r) ==
    r.machineId \o "_" \o ChannelText(IF "channel" \in DOMAIN r THEN r.channel ELSE 1)

\* the keys of existingByMachineAndChannel
ExistingKeys(existing) ==
    {RouteKey(existing[i]) : i \in {j \in 1..Len(existing) :
                                       existing[j].machineId # NoMachine}}

\* the conflicts array, one key per Draft route whose key is in the map
PasteConflicts(existing, draftRoutes) ==
    LET hit(r) == r.machineId # NoMachine /\ RouteKey(r) \in ExistingKeys(existing)
        hits == SelectSeq(draftRoutes, hit)
    IN  [i \in 1..Len(hits) |-> RouteKey(hits[i])]

\* [...new Set(conflicts)]
RECURSIVE Unique(_)
Unique(s) ==
    IF s = <<>> THEN <<>>
    ELSE LET front == Unique(SubSeq(s, 1, Len(s) - 1))
             last == s[Len(s)]
         IN  IF \E i \in 1..Len(front) : front[i] = last THEN front
             ELSE Append(front, last)

\* the merge loop: upsert every Draft route from index i on, counting
RECURSIVE PasteMerge(_, _, _, _, _, _, _)
PasteMerge(d, setlistId, entryId, draftRoutes, keys, i, acc) ==
    IF i > Len(draftRoutes) THEN [acc EXCEPT !.data = d]
    ELSE IF draftRoutes[i].machineId = NoMachine
         THEN PasteMerge(d, setlistId, entryId, draftRoutes, keys, i + 1, acc)
    ELSE LET had == draftRoutes[i].machineId \in keys
             res == upsertRoute(d, setlistId, entryId, draftRoutes[i])
         IN  PasteMerge(res.data, setlistId, entryId, draftRoutes, keys, i + 1,
                 [data |-> res.data,
                  saved |-> acc.saved \/ res.saved,
                  added |-> acc.added + (IF res.ret /\ ~had THEN 1 ELSE 0),
                  overwritten |-> acc.overwritten + (IF res.ret /\ had THEN 1 ELSE 0)])

\* Model.pasteDraftIntoEntry on store data d and the Draft: the new data,
\* whether save() ran, whether the Draft is cleared, and the return value.
\* confirm is FALSE where the returned object has no confirm field; the
\* message of a paste is the pair of counters its text prints
pasteDraftIntoEntry(d, draftRoutes, entryId, force, clearDraft) ==
    LET ei == getEntry(d, d.activeId, entryId)
        existing == d.setlists[getById(d, d.activeId)].entries[ei].routes
        conflicts == PasteConflicts(existing, draftRoutes)
        merged == PasteMerge(d, d.activeId, entryId, draftRoutes,
                             ExistingKeys(existing), 1,
                             [data |-> d, saved |-> FALSE, added |-> 0, overwritten |-> 0])
        quit(why) == [data |-> d, saved |-> FALSE, clear |-> FALSE,
                      ret |-> [ok |-> FALSE, confirm |-> FALSE, message |-> why]]
    IN  IF getById(d, d.activeId) = 0 THEN quit("No active setlist.")
        ELSE IF ei = 0 THEN quit("Entry not found.")
        ELSE IF draftRoutes = <<>> THEN quit("Draft is empty: nothing to paste.")
        ELSE IF conflicts # <<>> /\ ~force
             THEN [data |-> d, saved |-> FALSE, clear |-> FALSE,
                   ret |-> [ok |-> FALSE, confirm |-> TRUE,
                            conflicts |-> Unique(conflicts),
                            message |-> "Overwrite existing route(s)?"]]
        ELSE [data |-> merged.data, saved |-> merged.saved, clear |-> clearDraft,
              ret |-> [ok |-> TRUE, confirm |-> FALSE,
                       message |-> [added |-> merged.added,
                                    overwritten |-> merged.overwritten]]]

-----------------------------------------------------------------------------
(* part_006 (the MIDI driver) and model.js: recallEntry.  A driver call    *)
(* throws when the output cannot be opened or the native send fails; which *)
(* calls fail is the environment's choice, given as the set faults of      *)
(* <<route index, "patch">> and <<route index, "cc">> pairs.               *)

\* Model._sendRouteCCSlots: one sendCC per slot, each in its own try/catch
\* whose catch block is empty
sendRouteCCSlots(i, machineId, ccSlots, faults) ==
    IF ccSlots = None THEN <<>>
    ELSE LET slots == SubSeq(ccSlots[1], 1, Min(Len(ccSlots[1]), MaxCCSlots))
         IN  [k \in 1..Len(slots) |->
                 [call |-> "sendCC", route |-> i, machine |-> machineId,
                  cc |-> Clamp7(slots[k].cc), value |-> Clamp7(slots[k].value),
                  threw |-> <<i, "cc">> \in faults]]

\* a forEach body whose catch block is empty: a throwing sendPatch is not
\* recorded
RecallRouteSwallowing(active, r, i, faults) ==
    LET found == machinesGetById(r.machineId)
        mi == IF found # 0 THEN found ELSE machinesGetActive(active)
        out == resolveMachineOut(mi)
        pc == [call |-> "sendPatch", route |-> i, machine |-> Machines[mi].id,
               program |-> r.program[1], threw |-> <<i, "patch">> \in faults]
    IN  IF mi = 0
        THEN [midi |-> <<>>, lines |-> <<>>, errors |-> <<"Machine inconnue">>]
        ELSE IF r.program = None
        THEN [midi |-> <<>>, lines |-> <<>>, errors |-> <<"Program manquant">>]
        ELSE IF out = None
        THEN [midi |-> <<>>, lines |-> <<"WARN: pas de sortie MIDI">>, errors |-> <<>>]
        ELSE IF pc.threw
        THEN [midi |-> <<pc>>, lines |-> <<>>, errors |-> <<>>]
        ELSE [midi |-> <<pc>> \o sendRouteCCSlots(i, Machines[mi].id, r.ccSlots, faults),
              lines |-> <<"sent">>, errors |-> <<>>]

\* the body of recallEntry's forEach for route r at index i: the driver calls
\* made, and what is pushed on lines and on errors
RecallRoute(active, r, i, faults) ==
    LET found == machinesGetById(r.machineId)
        mi == IF found # 0 THEN found ELSE machinesGetActive(active)
        out == resolveMachineOut(mi)
        pc == [call |-> "sendPatch", route |-> i, machine |-> Machines[mi].id,
               program |-> r.program[1], threw |-> <<i, "patch">> \in faults]
    IN  IF mi = 0
        THEN [midi |-> <<>>, lines |-> <<>>, errors |-> <<"Machine inconnue">>]
        ELSE IF r.program = None
        THEN [midi |-> <<>>, lines |-> <<>>, errors |-> <<"Program manquant">>]
        ELSE IF out = None
        THEN [midi |-> <<>>, lines |-> <<"WARN: pas de sortie MIDI">>, errors |-> <<>>]
        ELSE IF pc.threw
        THEN [midi |-> <<pc>>, lines |-> <<>>, errors |-> <<"sendPatch">>]
        ELSE [midi |-> <<pc>> \o sendRouteCCSlots(i, Machines[mi].id, r.ccSlots, faults),
              lines |-> <<"sent">>, errors |-> <<>>]

\* a loop that a route without output ends: the routes after it are not run
RECURSIVE RecallRoutesAborting(_, _, _, _)
RecallRoutesAborting(active, routes, n, faults) ==
    IF n = 0 THEN [midi |-> <<>>, lines |-> <<>>, errors |-> <<>>]
    ELSE LET before == RecallRoutesAborting(active, routes, n - 1, faults)
             this == RecallRoute(active, routes[n], n, faults)
         IN  IF \E k \in 1..Len(before.lines) : before.lines[k] # "sent"
             THEN before
             ELSE [midi |-> before.midi \o this.midi,
                   lines |-> before.lines \o this.lines,
                   errors |-> before.errors \o this.errors]

RECURSIVE RecallRoutes(_, _, _, _)
RecallRoutes(active, routes, n, faults) ==
    IF n = 0 THEN [midi |-> <<>>, lines |-> <<>>, errors |-> <<>>]
    ELSE LET before == RecallRoutes(active, routes, n - 1, faults)
             this == RecallRoute(active, routes[n], n, faults)
         IN  [midi |-> before.midi \o this.midi,
              lines |-> before.lines \o this.lines,
              errors |-> before.errors \o this.errors]

\* a recall that reports a route without output as a failure
recallEntryStrict(d, active, menu, entryId, faults) ==
    LET si == getById(d, d.activeId)
        ei == getEntry(d, d.activeId, entryId)
        routes == d.setlists[si].entries[ei].routes
        run == RecallRoutes(active, routes, Len(routes), faults)
        bad == run.errors # <<>> \/ \E k \in 1..Len(run.lines) : run.lines[k] # "sent"
        quit(why) == [ret |-> [ok |-> FALSE, found |-> FALSE, message |-> why],
                      midi |-> <<>>, events |-> <<>>, menu |-> menu]
    IN  IF si = 0 THEN quit("Aucune setlist active.")
        ELSE IF ei = 0 THEN quit("Entree introuvable.")
        ELSE [ret |-> [ok |-> run.errors = <<>>, found |-> TRUE,
                       lines |-> run.lines, errors |-> run.errors],
              midi |-> run.midi,
              events |-> << [name |-> "recalledEntry", entry |-> entryId,
                             status |-> IF bad THEN "KO" ELSE "OK"] >>,
              menu |-> "main"]

\* Model.recallEntry: the return value, the driver calls, the events emitted
\* and the menu mode afterwards.  found tells the two early returns from a
\* recall that ran; lines and errors are the lists the message prints
recallEntry(d, active, menu, entryId, faults) ==
    LET si == getById(d, d.activeId)
        ei == getEntry(d, d.activeId, entryId)
        routes == d.setlists[si].entries[ei].routes
        run == RecallRoutes(active, routes, Len(routes), faults)
        quit(why) == [ret |-> [ok |-> FALSE, found |-> FALSE, message |-> why],
                      midi |-> <<>>, events |-> <<>>, menu |-> menu]
    IN  IF si = 0 THEN quit("Aucune setlist active.")
        ELSE IF ei = 0 THEN quit("Entree introuvable.")
        ELSE [ret |-> [ok |-> run.errors = <<>>, found |-> TRUE,
                       lines |-> run.lines, errors |-> run.errors],
              midi |-> run.midi,
              events |-> << [name |-> "recalledEntry", entry |-> entryId,
                             status |-> IF run.errors # <<>> THEN "KO" ELSE "OK"] >>,
              menu |-> "main"]

-----------------------------------------------------------------------------
(* model.js: the engine's setlist helpers *)

\* Model.ensureActiveSetlist; id is the id a new default setlist would get
ensureActiveSetlist(d, cur, id) ==
    LET res == ensureDefaultSetlist(d, id)
        s == res.data.setlists[getById(res.data, res.ret)]
    IN  [data |-> res.data, saved |-> res.saved, ret |-> res.ret,
         currentEntryId |-> IF cur # NullId THEN cur
                            ELSE IF Len(s.entries) > 0 THEN s.entries[1].id
                            ELSE NullId]

\* a commit that does not look at the Draft's length
commitDraftAsEntryUnguarded(d, cur, draftRoutes, id) ==
    LET act == ensureActiveSetlist(d, cur, id)
        eid == IF act.saved THEN id + 1 ELSE id
        res == addEntry(act.data, act.ret, eid, draftRoutes)
    IN  [data |-> res.data, saved |-> TRUE, clear |-> res.ret # NullId,
         currentEntryId |-> act.currentEntryId,
         used |-> IF act.saved THEN 2 ELSE 1,
         ret |-> [ok |-> res.ret # NullId, entry |-> res.ret]]

\* Model.commitDraftAsEntry
commitDraftAsEntry(d, cur, draftRoutes, id) ==
    LET act == ensureActiveSetlist(d, cur, id)
        eid == IF act.saved THEN id + 1 ELSE id
        res == addEntry(act.data, act.ret, eid, draftRoutes)
    IN  IF draftRoutes = <<>>
        THEN [data |-> act.data, saved |-> act.saved, clear |-> FALSE,
              currentEntryId |-> act.currentEntryId,
              used |-> IF act.saved THEN 1 ELSE 0,
              ret |-> [ok |-> FALSE, entry |-> NullId]]
        ELSE [data |-> res.data, saved |-> TRUE, clear |-> res.ret # NullId,
              currentEntryId |-> act.currentEntryId,
              used |-> IF act.saved THEN 2 ELSE 1,
              ret |-> [ok |-> res.ret # NullId, entry |-> res.ret]]

\* Model.updateEntryRouteCC; ccSlots is None when the argument is no array
updateEntryRouteCC(d, entryId, machineId, ccSlots) ==
    LET si == getById(d, d.activeId)
        ei == getEntry(d, d.activeId, entryId)
        routes == d.setlists[si].entries[ei].routes
        idx == IndexOfMachine(routes, machineId)
        copy == [routes[idx] EXCEPT
                    !.ccSlots = IF ccSlots # None THEN ccSlots ELSE Some(<<>>)]
    IN  IF si = 0 \/ ei = 0 \/ idx = 0 THEN Refused(d, FALSE)
        ELSE upsertRoute(d, d.activeId, entryId, copy)

\* Model.updateEntryRouteFromDraft
updateEntryRouteFromDraft(d, draftRoutes, entryId, machineId) ==
    LET idx == IndexOfMachine(draftRoutes, machineId)
    IN  IF getById(d, d.activeId) = 0 \/ idx = 0 THEN Refused(d, FALSE)
        ELSE upsertRoute(d, d.activeId, entryId, draftRoutes[idx])

-----------------------------------------------------------------------------
(* model.js: activation, navigation and the remote keys.  An engine call    *)
(* is given the store data d, the current entry cur and the menu mode, and  *)
(* yields an Outcome: the new data, whether save() ran, the new current     *)
(* entry and mode, the driver calls, the events emitted (a systemctl        *)
(* command spawned is listed among them, and an event emitted from a timer  *)
(* carries its delay in after), the value returned (None for undefined),    *)
(* and whether the call ended in a TypeError.  Setlists and entries are     *)
(* shown by their ids in place of their names.                              *)

Outcome(d, saved, cur, menu, midi, events, value, threw) ==
    [data |-> d, saved |-> saved, currentEntryId |-> cur, menu |-> menu,
     midi |-> midi, events |-> events, ret |-> value, threw |-> threw]

\* a plain return that did nothing
Quiet(d, cur, menu, value) == Outcome(d, FALSE, cur, menu, <<>>, <<>>, value, FALSE)

\* a property read on the null that getActiveSetlist() returned
Thrown(d, cur, menu) == Outcome(d, FALSE, cur, menu, <<>>, <<>>, None, TRUE)

Failure(why) == [ok |-> FALSE, found |-> FALSE, message |-> why]

\* SetlistsStore.getActive: the index of the active setlist, 0 for null
getActive(d) == getById(d, d.activeId)

\* the entry shown as "<NO ENTRY>"
NoEntry == -1

\* s?.entries?.[0]?.id || null
FirstEntryId(d) ==
    IF getActive(d) = 0 THEN NullId
    ELSE IF Len(d.setlists[getActive(d)].entries) = 0 THEN NullId
    ELSE d.setlists[getActive(d)].entries[1].id

\* Model.getUiState: the active setlist, and the current entry when the
\* active setlist holds it (NullId for the empty name)
getUiState(d, cur) ==
    [currentSetlistName |-> IF getActive(d) = 0 THEN NullId ELSE d.activeId,
     currentEntryName |-> IF getActive(d) # 0 /\ cur # NullId
                              /\ IndexOfId(d.setlists[getActive(d)].entries, cur) # 0
                          THEN cur ELSE NullId]

\* the changedSetlist event of F6 and F8, the active setlist being there
StatusEvent(d, cur) ==
    [name |-> "changedSetlist",
     setlist |-> getUiState(d, cur).currentSetlistName,
     entry |-> IF Len(d.setlists[getActive(d)].entries) = 0 THEN NoEntry
               ELSE getUiState(d, cur).currentEntryName,
     status |-> "WT"]

\* Model.setActiveSetlist; the value is the boolean of the store's setActive
setActiveSetlist(d, cur, menu, id) ==
    LET res == setActive(d, id)
        first == FirstEntryId(res.data)
    IN  IF getActive(res.data) = 0
        THEN Outcome(res.data, res.saved, NullId, menu, <<>>, <<>>, None, TRUE)
        ELSE Outcome(res.data, res.saved, first, menu, <<>>,
                     << [name |-> "changedSetlist", setlist |-> res.data.activeId,
                         entry |-> IF first = NullId THEN NoEntry ELSE first,
                         status |-> "WT"] >>,
                     Some([ok |-> res.ret]), FALSE)

\* Model.addSetlist
Model_addSetlist(d, id) ==
    LET res == addSetlist(d, id)
    IN  Done(setActive(res.data, id).data, id)

\* Model.activateEntry
activateEntry(d, active, cur, menu, entryId, faults) ==
    LET res == recallEntry(d, active, menu, entryId, faults)
    IN  IF getActive(d) = 0 THEN Quiet(d, cur, menu, Some(Failure("Aucune setlist active.")))
        ELSE IF getEntry(d, d.activeId, entryId) = 0
             THEN Quiet(d, cur, menu, Some(Failure("Entree introuvable.")))
        ELSE Outcome(d, FALSE, entryId, res.menu, res.midi, res.events,
                     Some(res.ret), FALSE)

\* an activation by delta that wraps around the ends of the setlist
activateEntryDeltaWrapping(d, active, cur, menu, delta, faults) ==
    LET es == d.setlists[getActive(d)].entries
        found == IF cur # NullId THEN IndexOfId(es, cur) ELSE 0
        idx == IF found = 0 THEN 1 ELSE found
        next == ((idx - 1 + delta) % Len(es)) + 1
    IN  IF getActive(d) = 0 \/ Len(es) = 0
        THEN Quiet(d, cur, menu, Some(Failure("Setlist vide.")))
        ELSE activateEntry(d, active, cur, menu, es[next].id, faults)

\* Model.activateEntryDelta
activateEntryDelta(d, active, cur, menu, delta, faults) ==
    LET es == d.setlists[getActive(d)].entries
        found == IF cur # NullId THEN IndexOfId(es, cur) ELSE 0
        idx == IF found = 0 THEN 1 ELSE found
        next == Max(1, Min(Len(es), idx + delta))
    IN  IF getActive(d) = 0 \/ Len(es) = 0
        THEN Quiet(d, cur, menu, Some(Failure("Setlist vide.")))
        ELSE activateEntry(d, active, cur, menu, es[next].id, faults)

\* Model.activateSetlistDelta; its timer only reads and logs
activateSetlistDelta(d, cur, menu, delta) ==
    LET found == IndexOfId(d.setlists, d.activeId)
        idx == IF found = 0 THEN 1 ELSE found
        next == Max(1, Min(Len(d.setlists), idx + delta))
    IN  IF Len(d.setlists) = 0
        THEN Quiet(d, cur, menu, Some(Failure("Pas de setlists...")))
        ELSE IF getActive(d) = 0 THEN Thrown(d, cur, menu)
        ELSE setActiveSetlist(d, cur, menu, d.setlists[next].id)

\* the value an Outcome returns is dropped (break, then the end of the switch)
Dropped(out) == [out EXCEPT !.ret = None]

\* the Outcome with an event of a timer set before the call was made
Later(out, event) == [out EXCEPT !.events = @ \o <<event>>]

\* triggerFunctionKey, cases 1 and 2: previous and next setlist
SetlistKey(d, cur, menu, delta) ==
    IF menu # "main" THEN Quiet(d, cur, menu, None)
    ELSE Dropped(activateSetlistDelta(d, cur, "main", delta))

\* triggerFunctionKey, case 3: activate the current entry, or the first
ActivateKey(d, active, cur, menu, faults) ==
    LET mark == [name |-> "remoteDisplayXY", text |-> "0xF7", xpos |-> 20,
                 ypos |-> 2, after |-> 39]
    IN  IF menu # "main" THEN Quiet(d, cur, menu, None)
        ELSE IF getActive(d) = 0 THEN Thrown(d, cur, menu)
        ELSE IF Len(d.setlists[getActive(d)].entries) = 0 THEN Quiet(d, cur, menu, None)
        ELSE IF cur # NullId
             THEN Later(activateEntry(d, active, cur, "main", cur, faults), mark)
        ELSE IF FirstEntryId(d) # NullId
             THEN Later(activateEntry(d, active, cur, "main", FirstEntryId(d), faults), mark)
        ELSE Later(Quiet(d, cur, "main", None), mark)

\* triggerFunctionKey, cases 4 and 5: previous and next entry
EntryKey(d, active, cur, menu, delta, faults) ==
    IF menu # "main" THEN Quiet(d, cur, menu, None)
    ELSE IF getActive(d) = 0 THEN Thrown(d, cur, "main")
    ELSE IF Len(d.setlists[getActive(d)].entries) = 0 THEN Quiet(d, cur, "main", None)
    ELSE activateEntryDelta(d, active, cur, "main", delta, faults)

\* triggerFunctionKey, case 6: reboot in the power menu, else show the status
RebootKey(d, cur, menu) ==
    IF menu = "power"
    THEN Outcome(d, FALSE, cur, menu, <<>>,
                 << [name |-> "remoteMessage", down |-> "Please Wait..."],
                    [name |-> "runSystemctl", action |-> "reboot"] >>, None, FALSE)
    ELSE IF getActive(d) = 0 THEN Thrown(d, cur, menu)
    ELSE Outcome(d, FALSE, cur, menu, <<>>, <<StatusEvent(d, cur)>>, None, FALSE)

\* triggerFunctionKey, case 7: power off in the power menu, else nothing
PowerOffKey(d, cur, menu) ==
    IF menu = "power"
    THEN Outcome(d, FALSE, cur, menu, <<>>,
                 << [name |-> "remoteMessage", down |-> "...IS SHUTTING DOWN"],
                    [name |-> "remoteDisplayPower", value |-> 0, after |-> 1939],
                    [name |-> "runSystemctl", action |-> "poweroff", after |-> 1939] >>,
                 None, FALSE)
    ELSE Quiet(d, cur, menu, None)

\* a power-menu key that enters the power menu and never leaves it
PowerMenuKeyOneWay(d, cur, menu) ==
    Outcome(d, FALSE, cur, "power", <<>>,
            << [name |-> "remoteMessage", down |-> "F6:REBOOT F7:POWROFF"] >>,
            None, FALSE)

\* triggerFunctionKey, case 8: the power menu toggle
PowerMenuKey(d, cur, menu) ==
    IF menu # "power"
    THEN Outcome(d, FALSE, cur, "power", <<>>,
                 << [name |-> "remoteMessage", down |-> "F6:REBOOT F7:POWROFF"] >>,
                 None, FALSE)
    ELSE IF getActive(d) = 0 THEN Thrown(d, cur, "main")
    ELSE Outcome(d, FALSE, cur, "main", <<>>, <<StatusEvent(d, cur)>>, None, FALSE)

\* Model.triggerFunctionKey; n is Number(key), None for NaN
triggerFunctionKey(d, active, cur, menu, n, faults) ==
    IF n = None THEN Quiet(d, cur, menu, None)
    ELSE CASE n[1] = 1 -> SetlistKey(d, cur, menu, -1)
           [] n[1] = 2 -> SetlistKey(d, cur, menu, 1)
           [] n[1] = 3 -> ActivateKey(d, active, cur, menu, faults)
           [] n[1] = 4 -> EntryKey(d, active, cur, menu, -1, faults)
           [] n[1] = 5 -> EntryKey(d, active, cur, menu, 1, faults)
           [] n[1] = 6 -> RebootKey(d, cur, menu)
           [] n[1] = 7 -> PowerOffKey(d, cur, menu)
           [] n[1] = 8 -> PowerMenuKey(d, cur, menu)
           [] OTHER -> Quiet(d, cur, menu, None)

\* a hotkey resolver that does not look at the menu mode
triggerSetlistHotkeyAnyMenu(d, active, cur, menu, letter, faults) ==
    LET key == ToUpperCase(letter)
        entryId == IF key \in HotkeyLetters
                   THEN d.setlists[getActive(d)].hotkeys[key] ELSE NullId
        mark == [name |-> "remoteDisplayXY", text |-> key, xpos |-> 18,
                 ypos |-> 1, after |-> 339]
    IN  IF getActive(d) = 0 THEN Quiet(d, cur, "main", None)
        ELSE IF entryId = NullId
             THEN Outcome(d, FALSE, cur, "main", <<>>,
                          << [name |-> "remoteMessage", down |-> "unassigned",
                              key |-> key] >>, None, FALSE)
        ELSE Later(activateEntry(d, active, cur, "main", entryId, faults), mark)

\* a hotkey resolver that activates the first entry for every assigned letter
triggerSetlistHotkeyFirst(d, active, cur, menu, letter, faults) ==
    LET key == ToUpperCase(letter)
        entryId == IF key \in HotkeyLetters
                   THEN d.setlists[getActive(d)].hotkeys[key] ELSE NullId
        mark == [name |-> "remoteDisplayXY", text |-> key, xpos |-> 18,
                 ypos |-> 1, after |-> 339]
    IN  IF menu # "main" THEN Quiet(d, cur, menu, None)
        ELSE IF getActive(d) = 0 THEN Quiet(d, cur, "main", None)
        ELSE IF entryId = NullId
             THEN Outcome(d, FALSE, cur, "main", <<>>,
                          << [name |-> "remoteMessage", down |-> "unassigned",
                              key |-> key] >>, None, FALSE)
        ELSE Later(activateEntry(d, active, cur, "main", FirstEntryId(d), faults), mark)

\* Model.triggerSetlistHotkey
triggerSetlistHotkey(d, active, cur, menu, letter, faults) ==
    LET key == ToUpperCase(letter)
        entryId == IF key \in HotkeyLetters
                   THEN d.setlists[getActive(d)].hotkeys[key] ELSE NullId
        mark == [name |-> "remoteDisplayXY", text |-> key, xpos |-> 18,
                 ypos |-> 1, after |-> 339]
    IN  IF menu # "main" THEN Quiet(d, cur, menu, None)
        ELSE IF getActive(d) = 0 THEN Quiet(d, cur, "main", None)
        ELSE IF entryId = NullId
             THEN Outcome(d, FALSE, cur, "main", <<>>,
                          << [name |-> "remoteMessage", down |-> "unassigned",
                              key |-> key] >>, None, FALSE)
        ELSE Later(activateEntry(d, active, cur, "main", entryId, faults), mark)

\* parseInt and Number on a key of one character: None for NaN
ParseInt(key) ==
    CASE key = "0" -> Some(0) [] key = "1" -> Some(1) [] key = "2" -> Some(2)
      [] key = "3" -> Some(3) [] key = "4" -> Some(4) [] key = "5" -> Some(5)
      [] key = "6" -> Some(6) [] key = "7" -> Some(7) [] key = "8" -> Some(8)
      [] key = "9" -> Some(9) [] OTHER -> None

\* Model.handleRemoteKey: returns nothing
handleRemoteKey(d, active, cur, menu, key, faults) ==
    IF ParseInt(key) = None
    THEN Dropped(triggerSetlistHotkey(d, active, cur, menu, key, faults))
    ELSE Dropped(triggerFunctionKey(d, active, cur, menu, ParseInt(key), faults))

-----------------------------------------------------------------------------
(* remoteDevice.js: RemoteDevice, the serial link to the remote.  r is the  *)
(* device: its fields, the position pc of its one drain loop (_kick) with   *)
(* the buffer buf it is writing and the offset i in it, and what has        *)
(* happened on the port.  A buffer is known by its number n among the       *)
(* buffers _send accepted and by its length; sent lists the lengths of the  *)
(* accepted buffers in the order of the calls, and written lists the chunks *)
(* given to port.write, each as bytes lo..hi-1 of buffer n.  The off timer  *)
(* is "fresh" when it was set together with the pending idle timer, so that *)
(* it expires later, and "stale" when it was set before it.  A handle of    *)
(* setTimeout is the number of the timer among those the device has set;    *)
(* idleTimer is the handle the device keeps (0 for null) and idlePending    *)
(* the handles of the idle timers that were neither cleared nor fired.      *)
(* loops counts the calls of _kick that are inside its try block.           *)

ChunkSize == 32

\* listeners of the device's "error" event: midistage.js registers none
ErrorListeners == 0

Commands ==
    {"initVFD", "clearVFD", "setVFDBrightness", "setVFDReverse", "setVFDPower",
     "setVFDBlink", "setIntlFont", "setCharTable", "showText", "showTextXY"}

\* length of the payload a command builds (showTextXY of a 4-character tag)
PayloadLen(cmd) ==
    CASE cmd = "initVFD" -> 4
      [] cmd = "clearVFD" -> 2
      [] cmd = "setVFDPower" -> 5
      [] cmd = "showText" -> 48
      [] cmd = "showTextXY" -> 8
      [] OTHER -> 3

RECURSIVE nextBuffer(_)
RECURSIVE nextChunk(_)

\* port.write(chunk, callback) of _kick
writeChunk(r) ==
    [r EXCEPT !.written = Append(@, [n |-> r.buf[1].n, lo |-> r.i,
                                     hi |-> Min(r.i + ChunkSize, r.buf[1].len)]),
              !.pc = "write"]

\* _kick: the test of the for loop, then _waitReady up to its first await
nextChunk(r) ==
    IF r.i >= r.buf[1].len THEN nextBuffer(r)
    ELSE IF r.disabled THEN writeChunk(r)
    ELSE [r EXCEPT !.pc = "get"]

\* _kick: the test of the while loop, the shift, and finally
nextBuffer(r) ==
    IF r.queue = <<>>
    THEN [r EXCEPT !.sending = FALSE, !.loops = @ - 1, !.pc = "idle",
                   !.buf = None, !.i = 0]
    ELSE nextChunk([r EXCEPT !.buf = Some(Head(r.queue)), !.queue = Tail(r.queue),
                             !.i = 0])

\* a _kick that does not look at the sending flag
kickUnguarded(r) ==
    IF r.disabled THEN r
    ELSE nextBuffer([r EXCEPT !.sending = TRUE, !.loops = @ + 1])

\* RemoteDevice._kick, up to its first await
kick(r) ==
    IF r.disabled THEN r
    ELSE IF r.sending THEN r
    ELSE nextBuffer([r EXCEPT !.sending = TRUE, !.loops = @ + 1])

\* a _send that puts the buffer at the head of the queue
sendAhead(r, len) ==
    IF r.disabled THEN r
    ELSE kick([r EXCEPT !.queue = <<[n |-> Len(r.sent) + 1, len |-> len]>> \o @,
                        !.sent = Append(@, len)])

\* RemoteDevice._send of a buffer of len bytes
send(r, len) ==
    IF r.disabled THEN r
    ELSE kick([r EXCEPT !.queue = Append(@, [n |-> Len(r.sent) + 1, len |-> len]),
                        !.sent = Append(@, len)])

\* RemoteDevice._resetIdleTimer
resetIdleTimer(r) ==
    LET woken == IF r.sleeping THEN [send(r, 3) EXCEPT !.sleeping = FALSE] ELSE r
        timed == [woken EXCEPT !.idlePending = (@ \ {woken.idleTimer})
                                                   \cup {woken.idleTimer + 1},
                               !.idleTimer = @ + 1]
        powered == IF timed.vfdoff THEN [send(timed, 5) EXCEPT !.vfdoff = FALSE]
                   ELSE timed
    IN  IF powered.deepSleepEnabled THEN [powered EXCEPT !.offTimer = "fresh"]
        ELSE IF powered.offTimer = "fresh" THEN [powered EXCEPT !.offTimer = "stale"]
        ELSE powered

\* String.prototype.trim of a line, given as the sequence of its characters
trim(line) ==
    LET inked == {k \in 1..Len(line) : line[k] \notin {" ", "\t", "\r", "\n"}}
    IN  IF inked = {} THEN <<>>
        ELSE SubSeq(line, CHOOSE k \in inked : \A j \in inked : k <= j,
                          CHOOSE k \in inked : \A j \in inked : k >= j)

\* the parser's "data" handler: the device after it and the events it emits.
\* midistage.js hands every "key" event to Model.handleRemoteKey.
parserData(r, line) ==
    LET s == trim(line)
    IN  IF s = <<>> THEN [remote |-> r, events |-> <<>>]
        ELSE [remote |-> resetIdleTimer(r),
              events |-> << [name |-> "key", key |-> ToUpperCase(s[1])] >>]

\* the command methods: initVFD resets the timers and then sends, setIntlFont
\* and setCharTable only send, the others send and then reset the timers
command(r, cmd) ==
    IF cmd = "initVFD" THEN send(resetIdleTimer(r), PayloadLen(cmd))
    ELSE IF cmd \in {"setIntlFont", "setCharTable"} THEN send(r, PayloadLen(cmd))
    ELSE resetIdleTimer(send(r, PayloadLen(cmd)))

\* the callback of the idle timer of handle h
idleTimeout(r, h) ==
    [send(r, 3) EXCEPT !.sleeping = TRUE, !.idlePending = @ \ {h}]

\* the callback of the off timer
offTimeout(r) ==
    [send(r, 5) EXCEPT !.vfdoff = TRUE, !.offTimer = "none"]

\* the handler of the port's "error" event: emit("error") throws when the
\* device has no "error" listener, and nothing catches it
portError(r) ==
    IF ErrorListeners = 0
    THEN [r EXCEPT !.portErrors = @ + 1, !.crashed = TRUE]
    ELSE [r EXCEPT !.portErrors = @ + 1, !.disabled = TRUE, !.queue = <<>>]

\* a _waitReady that does not look at the answer of the port
writeUnasked(r, err, status) == writeChunk(r)

\* an _isReady that takes a line it cannot read as not ready
readyReplyStrict(r, err, status) ==
    IF ~err /\ status # None /\ status[1] THEN writeChunk(r)
    ELSE [r EXCEPT !.pc = "sleep"]

\* the callback of port.get in _isReady, then _waitReady. status is None when
\* the port hands over no status, else the level of the ready line; the
\* line is taken as ready when there is an error or no status
readyReply(r, err, status) ==
    IF err \/ status = None THEN writeChunk(r)
    ELSE IF status[1] THEN writeChunk(r)
    ELSE [r EXCEPT !.pc = "sleep"]

\* the callback of port.write: on an error, catch and finally of _kick
writeCallback(r, err) ==
    IF err
    THEN [r EXCEPT !.writeErrors = @ + 1, !.sending = FALSE, !.loops = @ - 1,
                   !.pc = "idle", !.buf = None, !.i = 0]
    ELSE [r EXCEPT !.pc = "flush"]

\* the callback of port.drain, and the step of the for loop
drainCallback(r) == nextChunk([r EXCEPT !.i = @ + ChunkSize])

\* the RemoteDevice constructor
RemoteDevice(vfdDeepSleepEnabled) ==
    command(command([disabled |-> FALSE, queue |-> <<>>, sending |-> FALSE,
                     loops |-> 0, pc |-> "idle", buf |-> None, i |-> 0,
                     sleeping |-> FALSE, vfdoff |-> FALSE,
                     idleTimer |-> 0, idlePending |-> {},
                     offTimer |-> "none",
                     deepSleepEnabled |-> vfdDeepSleepEnabled,
                     sent |-> <<>>, written |-> <<>>,
                     portErrors |-> 0, writeErrors |-> 0, crashed |-> FALSE],
                    "initVFD"), "setVFDBrightness")

-----------------------------------------------------------------------------
(* The state machine: one action per call of the engine or of the store *)

Data == [setlists |-> setlists, activeId |-> activeId]

\* the store after an operation that returned res
Stored(res) ==
    /\ setlists' = res.data.setlists
    /\ activeId' = res.data.activeId
    /\ \E files \in {IF res.saved
                     THEN safeWriteJson([file |-> disk, tmp |-> tmpFile], res.data,
                                        "never")
                     ELSE [file |-> disk, tmp |-> tmpFile]} :
           disk' = files.file /\ tmpFile' = files.tmp

Silent == midiOut' = <<>> /\ emitted' = <<>>

ActiveEntries ==
    IF getById(Data, activeId) = 0 THEN <<>>
    ELSE setlists[getById(Data, activeId)].entries

\* the constructors of SetlistsStore, MachinesStore and Model on empty files
Init ==
    /\ setlists = <<normalizeSetlist(1)>>
    /\ activeId = 1
    /\ disk = [setlists |-> <<normalizeSetlist(1)>>, activeId |-> 1]
    /\ tmpFile = None
    /\ draft = <<>>
    /\ currentEntryId = NullId
    /\ currentMenu = "main"
    /\ machinesActiveId = "m1"
    /\ nextId = 2
    /\ ret = [op |-> "constructor"]
    /\ midiOut = <<>>
    /\ emitted = <<>>
    /\ timers = <<>>
    /\ remote = RemoteDevice(FALSE)

SelectMachineAsInstrument(machineId) ==
    /\ machinesActiveId' = IF machinesGetById(machineId) # 0 THEN machineId
                           ELSE machinesActiveId
    /\ ret' = [op |-> "selectMachineAsInstrument",
               ok |-> machinesGetById(machineId) # 0]
    /\ Silent
    /\ UNCHANGED <<timers, remote, setlists, activeId, disk, tmpFile, draft, currentEntryId, currentMenu, nextId>>

DraftUpsertFromCurrentSelection(patch) ==
    LET snap == snapshotSelectionForSetlist(machinesActiveId, patch)
    IN  /\ draft' = IF snap = None THEN draft ELSE draftUpsert(draft, snap[1])
        /\ ret' = [op |-> "draftUpsertFromCurrentSelection", ok |-> snap # None]
        /\ Silent
        /\ UNCHANGED <<timers, remote, setlists, activeId, disk, tmpFile, currentEntryId, currentMenu,
                       machinesActiveId, nextId>>

DraftClear ==
    /\ draft' = <<>>
    /\ ret' = [op |-> "draftClear"]
    /\ Silent
    /\ UNCHANGED <<timers, remote, setlists, activeId, disk, tmpFile, currentEntryId, currentMenu,
                   machinesActiveId, nextId>>

CommitDraftAsEntry ==
    LET res == commitDraftAsEntry(Data, currentEntryId, draft, nextId)
    IN  /\ Stored(res)
        /\ draft' = IF res.clear THEN <<>> ELSE draft
        /\ currentEntryId' = res.currentEntryId
        /\ nextId' = nextId + res.used
        /\ ret' = [op |-> "commitDraftAsEntry", ok |-> res.ret.ok]
        /\ Silent
        /\ UNCHANGED <<timers, remote, currentMenu, machinesActiveId>>

PasteDraftIntoEntry(entryId, force, clearDraft) ==
    LET res == pasteDraftIntoEntry(Data, draft, entryId, force, clearDraft)
    IN  /\ Stored(res)
        /\ draft' = IF res.clear THEN <<>> ELSE draft
        /\ ret' = [op |-> "pasteDraftIntoEntry", entryId |-> entryId,
                   force |-> force, value |-> res.ret]
        /\ Silent
        /\ UNCHANGED <<timers, remote, currentEntryId, currentMenu, machinesActiveId, nextId>>

UpdateEntryRouteFromDraft(entryId, machineId) ==
    LET res == updateEntryRouteFromDraft(Data, draft, entryId, machineId)
    IN  /\ Stored(res)
        /\ ret' = [op |-> "updateEntryRouteFromDraft", ok |-> res.ret]
        /\ Silent
        /\ UNCHANGED <<timers, remote, draft, currentEntryId, currentMenu, machinesActiveId, nextId>>

UpdateEntryRouteCC(entryId, machineId, ccSlots) ==
    LET res == updateEntryRouteCC(Data, entryId, machineId, ccSlots)
    IN  /\ Stored(res)
        /\ ret' = [op |-> "updateEntryRouteCC", ok |-> res.ret]
        /\ Silent
        /\ UNCHANGED <<timers, remote, draft, currentEntryId, currentMenu, machinesActiveId, nextId>>

RemoveEntryRoute(entryId, machineId) ==
    LET res == IF getById(Data, activeId) = 0 THEN Refused(Data, FALSE)
               ELSE removeRoute(Data, activeId, entryId, machineId)
    IN  /\ Stored(res)
        /\ ret' = [op |-> "removeEntryRoute", ok |-> res.ret]
        /\ Silent
        /\ UNCHANGED <<timers, remote, draft, currentEntryId, currentMenu, machinesActiveId, nextId>>

UpsertRoute(setlistId, entryId, route) ==
    LET res == upsertRoute(Data, setlistId, entryId, route)
    IN  /\ Stored(res)
        /\ ret' = [op |-> "upsertRoute", ok |-> res.ret]
        /\ Silent
        /\ UNCHANGED <<timers, remote, draft, currentEntryId, currentMenu, machinesActiveId, nextId>>

DuplicateEntry(entryId) ==
    LET res == IF getById(Data, activeId) = 0 THEN Refused(Data, NullId)
               ELSE duplicateEntry(Data, activeId, entryId, nextId)
    IN  /\ Stored(res)
        /\ nextId' = IF res.ret # NullId THEN nextId + 1 ELSE nextId
        /\ ret' = [op |-> "duplicateEntry", ok |-> res.ret # NullId,
                   entryId |-> entryId, copy |-> res.ret]
        /\ Silent
        /\ UNCHANGED <<timers, remote, draft, currentEntryId, currentMenu, machinesActiveId>>

\* SetlistsStore.addEntry with an entry literal of the given routes
AddEntry(setlistId, routes) ==
    LET res == addEntry(Data, setlistId, nextId, routes)
    IN  /\ Stored(res)
        /\ nextId' = IF res.ret # NullId THEN nextId + 1 ELSE nextId
        /\ ret' = [op |-> "addEntry", ok |-> res.ret # NullId]
        /\ Silent
        /\ UNCHANGED <<timers, remote, draft, currentEntryId, currentMenu, machinesActiveId>>

AddSetlist ==
    LET res == addSetlist(Data, nextId)
    IN  /\ Stored(res)
        /\ nextId' = nextId + 1
        /\ ret' = [op |-> "addSetlist", ok |-> TRUE]
        /\ Silent
        /\ UNCHANGED <<timers, remote, draft, currentEntryId, currentMenu, machinesActiveId>>

RemoveSetlist(setlistId) ==
    LET res == removeSetlist(Data, setlistId)
    IN  /\ Stored(res)
        /\ ret' = [op |-> "removeSetlist", ok |-> res.ret]
        /\ Silent
        /\ UNCHANGED <<timers, remote, draft, currentEntryId, currentMenu, machinesActiveId, nextId>>

SetActive(setlistId) ==
    LET res == setActive(Data, setlistId)
    IN  /\ Stored(res)
        /\ ret' = [op |-> "setActive", ok |-> res.ret]
        /\ Silent
        /\ UNCHANGED <<timers, remote, draft, currentEntryId, currentMenu, machinesActiveId, nextId>>

RemoveEntry(setlistId, entryId) ==
    LET res == removeEntry(Data, setlistId, entryId)
    IN  /\ Stored(res)
        /\ ret' = [op |-> "removeEntry", ok |-> res.ret]
        /\ Silent
        /\ UNCHANGED <<timers, remote, draft, currentEntryId, currentMenu, machinesActiveId, nextId>>

MoveEntry(setlistId, entryId, delta) ==
    LET res == moveEntry(Data, setlistId, entryId, delta)
    IN  /\ Stored(res)
        /\ ret' = [op |-> "moveEntry", setlistId |-> setlistId, entryId |-> entryId,
                   delta |-> delta, ok |-> res.ret]
        /\ Silent
        /\ UNCHANGED <<timers, remote, draft, currentEntryId, currentMenu, machinesActiveId, nextId>>

AssignHotkey(setlistId, key, entryId) ==
    LET res == assignHotkey(Data, setlistId, key, entryId)
    IN  /\ Stored(res)
        /\ ret' = [op |-> "assignHotkey", setlistId |-> setlistId, key |-> key,
                   entryId |-> entryId, ok |-> res.ret]
        /\ Silent
        /\ UNCHANGED <<timers, remote, draft, currentEntryId, currentMenu, machinesActiveId, nextId>>

RemoveHotkey(setlistId, key) ==
    LET res == removeHotkey(Data, setlistId, key)
    IN  /\ Stored(res)
        /\ ret' = [op |-> "removeHotkey", ok |-> res.ret]
        /\ Silent
        /\ UNCHANGED <<timers, remote, draft, currentEntryId, currentMenu, machinesActiveId, nextId>>

ClearHotkeys(setlistId) ==
    LET res == clearHotkeys(Data, setlistId)
    IN  /\ Stored(res)
        /\ ret' = [op |-> "clearHotkeys", ok |-> res.ret]
        /\ Silent
        /\ UNCHANGED <<timers, remote, draft, currentEntryId, currentMenu, machinesActiveId, nextId>>

RecallEntry(entryId, faults) ==
    LET res == recallEntry(Data, machinesActiveId, currentMenu, entryId, faults)
    IN  /\ currentMenu' = res.menu
        /\ ret' = [op |-> "recallEntry", entryId |-> entryId, faults |-> faults,
                   value |-> res.ret]
        /\ midiOut' = res.midi
        /\ emitted' = res.events
        /\ UNCHANGED <<timers, remote, setlists, activeId, disk, tmpFile, draft, currentEntryId,
                       machinesActiveId, nextId>>

\* the engine after a call whose Outcome is out
Engine(out) ==
    /\ Stored(out)
    /\ currentEntryId' = out.currentEntryId
    /\ currentMenu' = out.menu
    /\ midiOut' = out.midi
    /\ emitted' = out.events
    /\ UNCHANGED <<timers, remote, draft, machinesActiveId, nextId>>

\* a key of the remote, as midistage.js hands it to the engine inside a try
HandleRemoteKey(key, faults) ==
    \E out \in {handleRemoteKey(Data, machinesActiveId, currentEntryId, currentMenu,
                               key, faults)} :
        /\ Engine(out)
        /\ ret' = [op |-> "handleRemoteKey", key |-> key, threw |-> out.threw]

ActivateEntry(entryId, faults) ==
    \E out \in {activateEntry(Data, machinesActiveId, currentEntryId, currentMenu,
                             entryId, faults)} :
        /\ Engine(out)
        /\ ret' = [op |-> "activateEntry", entryId |-> entryId, ok |-> out.ret[1].ok]

ActivateEntryDelta(delta, faults) ==
    \E out \in {activateEntryDelta(Data, machinesActiveId, currentEntryId, currentMenu,
                                  delta, faults)} :
        /\ Engine(out)
        /\ ret' = [op |-> "activateEntryDelta", delta |-> delta,
                   from |-> currentEntryId, ok |-> out.ret[1].ok]

ActivateSetlistDelta(delta) ==
    \E out \in {activateSetlistDelta(Data, currentEntryId, currentMenu, delta)} :
        /\ Engine(out)
        /\ ret' = [op |-> "activateSetlistDelta", delta |-> delta,
                   from |-> activeId, threw |-> out.threw,
                   ok |-> IF out.threw THEN FALSE ELSE out.ret[1].ok]

SetActiveSetlist(setlistId) ==
    \E out \in {setActiveSetlist(Data, currentEntryId, currentMenu, setlistId)} :
        /\ Engine(out)
        /\ ret' = [op |-> "setActiveSetlist", setlistId |-> setlistId,
                   threw |-> out.threw,
                   ok |-> IF out.threw THEN FALSE ELSE out.ret[1].ok]

Model_AddSetlist ==
    LET res == Model_addSetlist(Data, nextId)
    IN  /\ Stored(res)
        /\ nextId' = nextId + 1
        /\ ret' = [op |-> "addSetlist", ok |-> TRUE]
        /\ Silent
        /\ UNCHANGED <<timers, remote, draft, currentEntryId, currentMenu, machinesActiveId>>

\* the process ends inside the save() of a store call whose result would
\* have been res: the store has made its change in memory, and the files
\* are as safeWriteJson left them
CrashInSave(res, crashAt) ==
    /\ res.saved
    /\ setlists' = res.data.setlists
    /\ activeId' = res.data.activeId
    /\ \E files \in {safeWriteJson([file |-> disk, tmp |-> tmpFile], res.data,
                                    crashAt)} :
           disk' = files.file /\ tmpFile' = files.tmp
    /\ nextId' = nextId + 1
    /\ ret' = [op |-> "crash", at |-> crashAt, before |-> Data]
    /\ Silent
    /\ UNCHANGED <<timers, remote, draft, currentEntryId, currentMenu, machinesActiveId>>

\* the process starts again: the constructors of SetlistsStore and Model on
\* the files the last process left
Restart ==
    \E act \in {ensureActiveSetlist(load(safeReadJson(disk)), NullId, nextId)} :
        /\ ret.op = "crash"
        /\ Stored(act)
        /\ nextId' = IF act.saved THEN nextId + 1 ELSE nextId
        /\ draft' = <<>>
        /\ currentEntryId' = act.currentEntryId
        /\ currentMenu' = "main"
        /\ ret' = [op |-> "constructor"]
        /\ Silent
        /\ UNCHANGED <<timers, remote, machinesActiveId>>

\* the engine is left alone by the remote device
EngineVars == <<setlists, activeId, disk, tmpFile, draft, currentEntryId, currentMenu,
                machinesActiveId, nextId, midiOut, emitted, timers>>

\* a step of the device: it runs until the process has ended on an uncaught
\* exception
Device(r, op) ==
    /\ ~remote.crashed
    /\ remote' = r
    /\ ret' = [op |-> op]
    /\ UNCHANGED EngineVars

RemoteCommand(cmd) == Device(command(remote, cmd), cmd)

\* a line from the remote: the parser's "data" handler
RemoteKeyLine(line) ==
    \E res \in {parserData(remote, line)} :
        /\ ~remote.crashed
        /\ remote' = res.remote
        /\ ret' = [op |-> IF res.events = <<>> THEN "blank" ELSE "key",
                   line |-> line, events |-> res.events]
        /\ UNCHANGED EngineVars

IdleTimeout ==
    \E h \in remote.idlePending : Device(idleTimeout(remote, h), "idleTimeout")

OffTimeout ==
    /\ \/ remote.offTimer = "stale"
       \/ remote.offTimer = "fresh" /\ remote.idlePending = {}
    /\ Device(offTimeout(remote), "offTimeout")

\* midistage.js on remoteVFDDeepSleep: a write of the field
SetDeepSleep(value) ==
    Device([remote EXCEPT !.deepSleepEnabled = value], "deepSleepEnabled")

PortError == Device(portError(remote), "portError")

ReadyReply(err, status) ==
    /\ remote.pc = "get"
    /\ ~remote.crashed
    /\ remote' = readyReply(remote, err, status)
    /\ ret' = [op |-> "readyReply", err |-> err, status |-> status]
    /\ UNCHANGED EngineVars

\* sleep(pollMs) is over: _isReady asks the port again
PollAgain == remote.pc = "sleep" /\ Device([remote EXCEPT !.pc = "get"], "poll")

WriteCallback(err) ==
    remote.pc = "write" /\ Device(writeCallback(remote, err), "writeCallback")

DrainCallback == remote.pc = "flush" /\ Device(drainCallback(remote), "drainCallback")

\* RemoteDevice.showTextXY of a text of n characters
showTextXY(r, n) == resetIdleTimer(send(r, 4 + n))

\* a listener of recalledEntry that leaves the status tag out
displayUntagged(r, event) ==
    IF event.name \in {"recalledEntry", "changedSetlist"}
    THEN command(command(r, "clearVFD"), "showText")
    ELSE r

\* midistage.js: the listeners of the engine's events, which call the device
\* inside emit.  The mark of F3 is one character, that of a letter two.
display(r, event) ==
    IF event.name \in {"recalledEntry", "changedSetlist"}
    THEN command(command(command(r, "clearVFD"), "showText"), "showTextXY")
    ELSE IF event.name = "remoteMessage" THEN command(r, "showText")
    ELSE IF event.name = "remoteDisplayXY"
         THEN showTextXY(r, IF event.xpos = 20 THEN 1 ELSE 2)
    ELSE IF event.name = "remoteDisplayPower" THEN command(r, "setVFDPower")
    ELSE r

RECURSIVE displayAll(_, _, _)

\* the device after the listeners of the first n of the events
displayAll(r, events, n) ==
    IF n = 0 THEN r ELSE display(displayAll(r, events, n - 1), events[n])

\* the events emitted during the call, and those its timers emit later
EmittedNow(events) == SelectSeq(events, LAMBDA ev : "after" \notin DOMAIN ev)
EmittedLater(events) == SelectSeq(events, LAMBDA ev : "after" \in DOMAIN ev)

\* a line from the remote in the running program: the parser resets the
\* timers and emits "key", midistage.js hands the key to the engine inside a
\* try, and the engine's events call the device before the engine goes on
StageKeyLine(line, faults) ==
    \E res \in {parserData(remote, line)} :
        \E out \in {IF res.events = <<>>
                    THEN Quiet(Data, currentEntryId, currentMenu, None)
                    ELSE handleRemoteKey(Data, machinesActiveId, currentEntryId,
                                         currentMenu, res.events[1].key, faults)} :
            /\ ~remote.crashed
            /\ Stored(out)
            /\ currentEntryId' = out.currentEntryId
            /\ currentMenu' = out.menu
            /\ midiOut' = out.midi
            /\ emitted' = EmittedNow(out.events)
            /\ timers' = timers \o EmittedLater(out.events)
            /\ remote' = displayAll(res.remote, EmittedNow(out.events),
                                    Len(EmittedNow(out.events)))
            /\ ret' = [op |-> "keyLine", line |-> line, events |-> res.events,
                       faults |-> faults, threw |-> out.threw]
            /\ UNCHANGED <<draft, machinesActiveId, nextId>>

\* a timer of the engine fires: one that no timer set before it with the
\* same or a shorter delay is waiting in front of
EngineTimeout(k) ==
    /\ ~remote.crashed
    /\ k \in 1..Len(timers)
    /\ \A j \in 1..(k - 1) : timers[j].after > timers[k].after
    /\ timers' = RemoveAt(timers, k)
    /\ remote' = display(remote, timers[k])
    /\ emitted' = <<timers[k]>>
    /\ midiOut' = <<>>
    /\ ret' = [op |-> "engineTimeout"]
    /\ UNCHANGED <<setlists, activeId, disk, tmpFile, draft, currentEntryId,
                   currentMenu, machinesActiveId, nextId>>

-----------------------------------------------------------------------------
(* Inputs *)

\* an entry id argument: those of the active setlist, and one it does not hold
EntryArgs == {ActiveEntries[i].id : i \in 1..Len(ActiveEntries)} \cup {NullId}

\* number of routes stored in the active setlist
RECURSIVE CountRoutes(_)
CountRoutes(es) ==
    IF es = <<>> THEN 0 ELSE Len(es[1].routes) + CountRoutes(Tail(es))

CanCreateEntry == Len(ActiveEntries) < MaxRouteEntries /\ nextId <= MaxIds

\* the call does not take the stored routes beyond the model's bound
WithinRoutes == CountRoutes(ActiveEntries') <= MaxStoredRoutes

-----------------------------------------------------------------------------
(* SpecPaste: building cues from the Draft in the default setlist *)

\* what can be selected in the patch list of the active machine's instrument:
\* nothing (None), a patch without program number, a patch with one
Patches(machineId) ==
    IF machineId = "m1"
    THEN {None, Some([program |-> None]), Some([program |-> Some(5)]),
          Some([program |-> Some(9)])}
    ELSE {Some([program |-> Some(7)])}

PastePayloads ==
    { [machineId |-> "m1", program |-> Some(5)],
      [machineId |-> "m1", program |-> Some(5), ccSlots |-> Some(<<>>)],
      [machineId |-> NoMachine, program |-> Some(5)] }

CCArguments == {None, Some(<< [cc |-> 74, value |-> 100] >>)}

\* the machines whose route is given CC slots: the one on channel 1 and one
\* that has no route
CCMachines == {"m1", "m3"}

NextPaste ==
    \/ \E m \in MachineIds \cup {"m3"} : SelectMachineAsInstrument(m)
    \/ \E p \in Patches(machinesActiveId) : DraftUpsertFromCurrentSelection(p)
    \/ DraftClear
    \/ (CanCreateEntry /\ CommitDraftAsEntry /\ WithinRoutes)
    \/ \E e \in EntryArgs, f \in BOOLEAN, c \in BOOLEAN :
           PasteDraftIntoEntry(e, f, c) /\ WithinRoutes
    \/ \E e \in EntryArgs, m \in MachineIds :
           UpdateEntryRouteFromDraft(e, m) /\ WithinRoutes
    \/ \E e \in EntryArgs, m \in CCMachines, cc \in CCArguments :
           UpdateEntryRouteCC(e, m, cc)
    \/ \E e \in EntryArgs, m \in MachineIds : RemoveEntryRoute(e, m)
    \/ \E e \in EntryArgs, r \in PastePayloads :
           UpsertRoute(activeId, e, r) /\ WithinRoutes
    \/ (CanCreateEntry /\ \E e \in EntryArgs : DuplicateEntry(e) /\ WithinRoutes)

SpecPaste == Init /\ [][NextPaste]_vars

-----------------------------------------------------------------------------
(* SpecCommit: committing the Draft while setlists are added, deleted and   *)
(* activated, so that a commit may find no active setlist                   *)

NextCommit ==
    \/ \E m \in MachineIds : SelectMachineAsInstrument(m)
    \/ \E p \in Patches(machinesActiveId) : DraftUpsertFromCurrentSelection(p)
    \/ DraftClear
    \/ (CanCreateEntry /\ CommitDraftAsEntry /\ WithinRoutes)
    \/ (Len(setlists) < MaxSetlists /\ nextId <= MaxIds /\ AddSetlist)
    \/ \E i \in 1..Len(setlists) : RemoveSetlist(setlists[i].id)
    \/ \E i \in 1..Len(setlists) : SetActive(setlists[i].id)

SpecCommit == Init /\ [][NextCommit]_vars

-----------------------------------------------------------------------------
(* SpecRecall: recalling a cue whose routes name a machine with an output   *)
(* ("m1"), one without ("m2") and one that is not configured ("m3"), while  *)
(* driver calls may throw                                                   *)

RecallPayloads ==
    { [machineId |-> "m1", program |-> Some(5)],
      [machineId |-> "m1", program |-> None],
      [machineId |-> "m2", program |-> Some(5)],
      [machineId |-> "m3", program |-> Some(5)] }

RecallCC == Some(<< [cc |-> 74, value |-> 100], [cc |-> 7, value |-> 90] >>)

\* the driver calls a recall of the entry makes when none throws: each of
\* them may throw
FaultPoints(entryId) ==
    LET calls == recallEntry(Data, machinesActiveId, currentMenu, entryId, {}).midi
    IN  {<<calls[k].route, IF calls[k].call = "sendPatch" THEN "patch" ELSE "cc">> :
             k \in 1..Len(calls)}

NextRecall ==
    \/ \E m \in MachineIds \cup {"m3"} : SelectMachineAsInstrument(m)
    \/ (Len(ActiveEntries) < MaxRecallEntries /\ nextId <= MaxIds
           /\ AddEntry(activeId, <<>>))
    \/ \E e \in EntryArgs, r \in RecallPayloads :
           /\ UpsertRoute(activeId, e, r)
           /\ CountRoutes(ActiveEntries') <= MaxRecallRoutes
    \/ \E e \in EntryArgs : UpdateEntryRouteCC(e, "m1", RecallCC)
    \/ \E e \in EntryArgs, m \in MachineIds \cup {"m3"} : RemoveEntryRoute(e, m)
    \/ \E e \in EntryArgs : \E faults \in SUBSET FaultPoints(e) : RecallEntry(e, faults)

SpecRecall == Init /\ [][NextRecall]_vars

-----------------------------------------------------------------------------
(* Spec: the store's setlists, entries and hotkeys *)

IdsOf(es) == {es[i].id : i \in 1..Len(es)}

SetlistArgs == {setlists[i].id : i \in 1..Len(setlists)} \cup {NullId}

\* the entries of setlist id, <<>> when there is no such setlist
EntriesIn(ss, id) ==
    IF IndexOfId(ss, id) = 0 THEN <<>> ELSE ss[IndexOfId(ss, id)].entries
EntriesOf(id) == EntriesIn(setlists, id)

\* an entry id argument: any entry of any setlist, and one that does not exist
AnyEntryArgs ==
    UNION {{setlists[i].entries[j].id : j \in 1..Len(setlists[i].entries)} :
               i \in 1..Len(setlists)} \cup {NullId}

Deltas == {-2, -1, 1, 2}

\* moveEntry calls: every entry of every setlist by every delta, an entry the
\* setlist does not hold, and a setlist that does not exist
MoveCalls ==
    {<<s, e, delta>> : s \in SetlistArgs \ {NullId}, e \in AnyEntryArgs \ {NullId},
                       delta \in Deltas}
        \cup {<<s, NullId, 1>> : s \in SetlistArgs}

\* hotkey arguments: lower case, upper case, and not a letter A..H
KeyArgs == {"a", "B", "Z"}

\* assignHotkey calls: a letter for any entry in any setlist, a key that is
\* no letter, an entry that does not exist, a setlist that does not exist
HotkeyCalls ==
    {<<s, k, e>> : s \in SetlistArgs \ {NullId}, k \in KeyArgs \ {"Z"},
                   e \in AnyEntryArgs}
        \cup {<<s, "Z", e>> : s \in SetlistArgs \ {NullId}, e \in AnyEntryArgs \ {NullId}}
        \cup {<<NullId, "a", e>> : e \in AnyEntryArgs \ {NullId}}

Next ==
    \/ (Len(setlists) < MaxSetlists /\ nextId <= MaxIds /\ AddSetlist)
    \/ \E s \in SetlistArgs : RemoveSetlist(s)
    \/ \E s \in SetlistArgs : SetActive(s)
    \/ \E s \in SetlistArgs :
           Len(EntriesOf(s)) < MaxEntries /\ nextId <= MaxIds /\ AddEntry(s, <<>>)
    \/ \E s \in SetlistArgs, e \in AnyEntryArgs : RemoveEntry(s, e)
    \/ \E c \in MoveCalls : MoveEntry(c[1], c[2], c[3])
    \/ \E e \in AnyEntryArgs :
           Len(ActiveEntries) < MaxEntries /\ nextId <= MaxIds /\ DuplicateEntry(e)
    \/ \E c \in HotkeyCalls : AssignHotkey(c[1], c[2], c[3])
    \/ \E s \in SetlistArgs, k \in KeyArgs : RemoveHotkey(s, k)
    \/ \E s \in SetlistArgs : ClearHotkeys(s)

Spec == Init /\ [][Next]_vars

-----------------------------------------------------------------------------
(* SpecRoutes: routes given to addEntry and upsertRoute with numbers in and *)
(* out of the MIDI range, in setlists that are added, removed and           *)
(* activated and whose entries are given a hotkey                           *)

MaxRangeEntries == 1

ProgramInputs == {None, Some(-1), Some(128)}

\* no slot, one slot out of range on both sides, and one slot too many
CCInputs ==
    {<<>>, << [cc |-> -3, value |-> 300] >>,
     << [cc |-> 1, value |-> 10], [cc |-> 2, value |-> 20], [cc |-> 3, value |-> 30],
        [cc |-> 4, value |-> 40], [cc |-> 5, value |-> 50] >>}

RouteInputs ==
    {[machineId |-> "m1", program |-> p] : p \in ProgramInputs}
        \cup {[machineId |-> "m1", program |-> Some(5), ccSlots |-> Some(c)] :
                  c \in CCInputs}
        \cup {[machineId |-> "m2", program |-> Some(64)]}

NextRoutes ==
    \/ \E r \in RouteInputs :
           /\ Cardinality(AnyEntryArgs \ {NullId}) < MaxRangeEntries
           /\ nextId <= MaxIds
           /\ AddEntry(activeId, <<r>>)
    \/ \E e \in EntryArgs, r \in RouteInputs : UpsertRoute(activeId, e, r)
    \/ \E e \in EntryArgs : RemoveEntry(activeId, e)
    \/ (Len(setlists) < MaxSetlists /\ nextId <= MaxIds /\ AddSetlist)
    \/ \E s \in SetlistArgs : RemoveSetlist(s)
    \/ \E s \in SetlistArgs : SetActive(s)
    \/ \E e \in EntryArgs : AssignHotkey(activeId, "A", e)
    \/ RemoveHotkey(activeId, "A")

SpecRoutes == Init /\ [][NextRoutes]_vars

-----------------------------------------------------------------------------
(* SpecCopy: entries with routes and CC slots that are duplicated, given a  *)
(* hotkey, and whose routes are then changed or removed                     *)

MaxCopyEntries == 2

CopyRoutes ==
    {[machineId |-> "m1", program |-> Some(5),
      ccSlots |-> Some(<< [cc |-> 1, value |-> 10] >>)],
     [machineId |-> "m1", program |-> Some(9)],
     [machineId |-> "m1", program |-> Some(5), ccSlots |-> Some(<<>>)],
     [machineId |-> "m2", program |-> Some(64)]}

NextCopy ==
    \/ \E r \in CopyRoutes :
           /\ Len(ActiveEntries) < MaxCopyEntries /\ nextId <= MaxIds
           /\ AddEntry(activeId, <<r>>)
    \/ \E e \in EntryArgs :
           /\ Len(ActiveEntries) < MaxCopyEntries /\ nextId <= MaxIds
           /\ DuplicateEntry(e)
    \/ \E e \in EntryArgs, r \in CopyRoutes : UpsertRoute(activeId, e, r)
    \/ \E e \in EntryArgs, m \in MachineIds : RemoveEntryRoute(e, m)
    \/ \E e \in EntryArgs : AssignHotkey(activeId, "A", e)
    \/ \E e \in EntryArgs : RemoveEntry(activeId, e)

SpecCopy == Init /\ [][NextCopy]_vars

-----------------------------------------------------------------------------
(* SpecSave: the store calls of SpecRoutes in a process that may end inside *)
(* a save and be started again                                              *)

\* the results of the store calls whose save the process may end in
SaveCalls ==
    {[data |-> res.data, saved |-> res.saved] : res \in
        {addEntry(Data, activeId, nextId, <<r>>) : r \in RouteInputs}
            \cup {addSetlist(Data, nextId)}}
    \cup {[data |-> res.data, saved |-> res.saved] : res \in
        {upsertRoute(Data, activeId, e, r) : e \in EntryArgs, r \in RouteInputs}
            \cup {removeEntry(Data, activeId, e) : e \in EntryArgs}
            \cup {removeSetlist(Data, s) : s \in SetlistArgs}
            \cup {setActive(Data, s) : s \in SetlistArgs}
            \cup {assignHotkey(Data, activeId, "A", e) : e \in EntryArgs}}

NextSave ==
    \/ (ret.op # "crash" /\ NextRoutes)
    \/ \E res \in SaveCalls, crashAt \in {"writing", "written"} :
           /\ ret.op # "crash"
           /\ nextId <= MaxIds
           /\ Len(res.data.setlists) <= MaxSetlists
           /\ CrashInSave(res, crashAt)
           /\ Cardinality(AnyEntryArgs' \ {NullId}) <= MaxRangeEntries
    \/ Restart

SpecSave == Init /\ [][NextSave]_vars

-----------------------------------------------------------------------------
(* SpecRemote: the keys of the remote and the navigation calls of the UI,   *)
(* over setlists whose cues send one program to "m1"                        *)

MaxRemoteEntries == 2

\* the keys the remote link delivers: F1..F8 and hotkey letters, of which C
\* is never assigned here
RemoteKeys == {"1", "2", "3", "4", "5", "6", "7", "8", "A", "B", "C"}

RemoteRoutes == << [machineId |-> "m1", program |-> Some(5)] >>

\* the driver works, or the program send of the cue's route throws
RemoteFaults == {{}, {<<1, "patch">>}}

NavDeltas == {-1, 1}

NextRemote ==
    \/ \E k \in RemoteKeys, f \in RemoteFaults : HandleRemoteKey(k, f)
    \/ \E e \in EntryArgs, f \in RemoteFaults : ActivateEntry(e, f)
    \/ \E delta \in NavDeltas, f \in RemoteFaults : ActivateEntryDelta(delta, f)
    \/ \E delta \in NavDeltas : ActivateSetlistDelta(delta)
    \/ \E s \in SetlistArgs : SetActiveSetlist(s)
    \/ \E e \in EntryArgs : RecallEntry(e, {})
    \/ (Len(setlists) < MaxSetlists /\ nextId <= MaxIds /\ Model_AddSetlist)
    \/ \E i \in 1..Len(setlists) : RemoveSetlist(setlists[i].id)
    \/ (Len(ActiveEntries) < MaxRemoteEntries /\ nextId <= MaxIds
           /\ AddEntry(activeId, RemoteRoutes))
    \/ \E e \in EntryArgs \ {NullId} : RemoveEntry(activeId, e)
    \/ \E k \in {"a", "B"}, e \in EntryArgs \ {NullId} : AssignHotkey(activeId, k, e)

SpecRemote == Init /\ [][NextRemote]_vars

-----------------------------------------------------------------------------
(* SpecDriver: the remote device under commands, key lines, its timers, the *)
(* callbacks of the port and port errors                                    *)

MaxSends == 4
MaxPortErrors == 1
MaxWriteErrors == 1
MaxTimers == 5

\* lines of the remote: blank ones, keys with their line end or leading
\* blanks, in lower case, and characters that are no key of the remote
Lines ==
    {<<>>, <<" ", "\r">>, <<"a">>, <<"H", "\r">>, <<" ", "3">>, <<"Z">>,
     <<"9">>, <<"b", "Z">>}

InitDriver ==
    /\ setlists = <<normalizeSetlist(1)>>
    /\ activeId = 1
    /\ disk = [setlists |-> <<normalizeSetlist(1)>>, activeId |-> 1]
    /\ tmpFile = None
    /\ draft = <<>>
    /\ currentEntryId = NullId
    /\ currentMenu = "main"
    /\ machinesActiveId = "m1"
    /\ nextId = 2
    /\ ret = [op |-> "constructor"]
    /\ midiOut = <<>>
    /\ emitted = <<>>
    /\ timers = <<>>
    /\ \E deepSleep \in BOOLEAN : remote = RemoteDevice(deepSleep)

\* the step accepts no more buffers, and sets no more timers, than the model
\* follows
WithinSends == Len(remote'.sent) <= MaxSends /\ remote'.idleTimer <= MaxTimers

NextDriver ==
    \/ \E cmd \in Commands : RemoteCommand(cmd) /\ WithinSends
    \/ \E line \in Lines : RemoteKeyLine(line) /\ WithinSends
    \/ (IdleTimeout /\ WithinSends)
    \/ (OffTimeout /\ WithinSends)
    \/ \E v \in BOOLEAN : SetDeepSleep(v)
    \/ (remote.portErrors < MaxPortErrors /\ PortError)
    \/ \E err \in BOOLEAN, status \in {None, Some(TRUE), Some(FALSE)} :
           ReadyReply(err, status)
    \/ PollAgain
    \/ \E err \in BOOLEAN :
           (err => remote.writeErrors < MaxWriteErrors) /\ WriteCallback(err)
    \/ DrainCallback

SpecDriver == InitDriver /\ [][NextDriver]_vars

-----------------------------------------------------------------------------
(* SpecStage: the keys of the remote in the running program, from the line  *)
(* of the remote through the engine to the queue of the device, with cues   *)
(* of two MIDI messages                                                     *)

MaxStageSends == 9
MaxStageTimers == 14

StageRoutes ==
    {<< [machineId |-> "m1", program |-> Some(5),
         ccSlots |-> Some(<< [cc |-> 74, value |-> 100] >>)] >>,
     << [machineId |-> "m1", program |-> Some(9),
         ccSlots |-> Some(<< [cc |-> 7, value |-> 90] >>)] >>}

\* F3, an assigned letter in lower case, and a letter that is not assigned
StageLines == {<<"3">>, <<"a", "\r">>, <<"B">>}

WithinStage ==
    Len(remote'.sent) <= MaxStageSends /\ remote'.idleTimer <= MaxStageTimers

\* the cues are made and given their letter before the first key
Rehearsal == ret.op \in {"constructor", "addEntry", "assignHotkey"}

NextStage ==
    \/ \E routes \in StageRoutes :
           /\ Rehearsal
           /\ Len(ActiveEntries) < MaxRemoteEntries /\ nextId <= MaxIds
           /\ AddEntry(activeId, routes)
    \/ \E e \in EntryArgs \ {NullId} : Rehearsal /\ AssignHotkey(activeId, "A", e)
    \/ \E line \in StageLines, f \in RemoteFaults :
           StageKeyLine(line, f) /\ WithinStage
    \/ \E k \in 1..Len(timers) : EngineTimeout(k) /\ WithinStage
    \/ (IdleTimeout /\ WithinStage)
    \/ ReadyReply(FALSE, Some(TRUE))
    \/ WriteCallback(FALSE)
    \/ DrainCallback

SpecStage == Init /\ [][NextStage]_vars

-----------------------------------------------------------------------------
(* Claims C1, C2, C7, C8: the Draft, paste and upsert, under SpecPaste *)

IsEntry(e) == IndexOfId(ActiveEntries, e) # 0
RoutesIn(es, e) == es[IndexOfId(es, e)].routes
RoutesOf(e) == RoutesIn(ActiveEntries, e)
MachineSet(routes) == {routes[i].machineId : i \in 1..Len(routes)}
RouteFor(routes, m) == routes[IndexOfMachine(routes, m)]
Elements(s) == {s[i] : i \in 1..Len(s)}
SharedMachines(e) == MachineSet(draft) \cap MachineSet(RoutesOf(e))

\* C1: a paste without force whose Draft shares a machineId with the Entry
\* returns ok:false, confirm:true and exactly the shared machineIds as
\* conflicts, and changes neither the store, the Draft nor the saved document
C1_ConflictingPasteAsksFirst ==
    [][\A e \in EntryArgs, c \in BOOLEAN :
          (/\ IsEntry(e)
           /\ SharedMachines(e) # {}
           /\ PasteDraftIntoEntry(e, FALSE, c))
          => /\ ret'.value.ok = FALSE
             /\ ret'.value.confirm
             /\ Elements(ret'.value.conflicts) = SharedMachines(e)
             /\ setlists' = setlists
             /\ draft' = draft
             /\ disk' = disk]_vars

\* C2: a forced paste returns ok:true, added = the Draft routes whose machine
\* had no Route in the Entry, overwritten = those whose machine had one; the
\* Entry then holds one Route per machineId of Entry and Draft, the Draft's
\* route in place of the same-machine route, every other route unchanged
C2_ForcedPasteCounts ==
    [][\A e \in EntryArgs, c \in BOOLEAN :
          (/\ IsEntry(e)
           /\ draft # <<>>
           /\ PasteDraftIntoEntry(e, TRUE, c))
          => /\ ret'.value.ok
             /\ ret'.value.message.added = Cardinality(MachineSet(draft) \ MachineSet(RoutesOf(e)))
             /\ ret'.value.message.overwritten = Cardinality(SharedMachines(e))
             /\ MachineSet(RoutesOf(e)') = MachineSet(RoutesOf(e)) \cup MachineSet(draft)
             /\ Len(RoutesOf(e)') = Cardinality(MachineSet(RoutesOf(e)'))
             /\ \A m \in MachineSet(draft) :
                    RouteFor(RoutesOf(e)', m).program = RouteFor(draft, m).program
             /\ \A m \in MachineSet(RoutesOf(e)) \ MachineSet(draft) :
                    RouteFor(RoutesOf(e)', m) = RouteFor(RoutesOf(e), m)]_vars

UniqueMachines(routes) ==
    \A i, j \in 1..Len(routes) : routes[i].machineId = routes[j].machineId => i = j

\* C7: every Entry and the Draft hold at most one Route per machineId, and
\* writing a Route for a machineId that is present replaces that Route: the
\* list keeps its length and holds the written values at that machineId
C7_OneRoutePerMachine ==
    /\ [](/\ UniqueMachines(draft)
          /\ \A si \in 1..Len(setlists) : \A ei \in 1..Len(setlists[si].entries) :
                 UniqueMachines(setlists[si].entries[ei].routes))
    /\ [][/\ (ret'.op = "upsertRoute" /\ ret'.ok)
             => \A e \in EntryArgs, r \in PastePayloads :
                   (/\ IsEntry(e)
                    /\ r.machineId \in MachineSet(RoutesOf(e))
                    /\ UpsertRoute(activeId, e, r))
                   => /\ Len(RoutesOf(e)') = Len(RoutesOf(e))
                      /\ RouteFor(RoutesOf(e)', r.machineId).program = r.program
          /\ (ret'.op = "draftUpsertFromCurrentSelection" /\ ret'.ok)
             => \A p \in Patches(machinesActiveId) :
                   (/\ snapshotSelectionForSetlist(machinesActiveId, p) # None
                    /\ machinesActiveId \in MachineSet(draft)
                    /\ DraftUpsertFromCurrentSelection(p))
                   => /\ Len(draft') = Len(draft)
                      /\ RouteFor(draft', machinesActiveId).program = p[1].program]_vars

\* C7's case: an Entry of two Routes took an upsert for a machineId it held
\* (the Route has CC slots the payload did not bring)
C7_Witness ==
    /\ ret.op = "upsertRoute"
    /\ ret.ok
    /\ \E i \in 1..Len(ActiveEntries) :
           /\ Len(ActiveEntries[i].routes) = 2
           /\ \E k \in 1..2 :
                  /\ ActiveEntries[i].routes[k].program = Some(5)
                  /\ ActiveEntries[i].routes[k].ccSlots = Some(<< [cc |-> 74, value |-> 100] >>)

HadSlots(r) == Field(r, "ccSlots") # None

\* C8: an upsert for a machineId the Entry holds keeps that Route's CC slots
\* when the payload has none (a forced paste from the Draft included), puts
\* the payload's other fields in place, and replaces the CC slots by the
\* payload's (normalised) when it has some, an empty list included
C8_UpsertKeepsCCSlots ==
    [][/\ (ret'.op = "upsertRoute" /\ ret'.ok)
          => \A e \in EntryArgs, r \in PastePayloads :
                (/\ IsEntry(e)
                 /\ r.machineId \in MachineSet(RoutesOf(e))
                 /\ UpsertRoute(activeId, e, r))
                => /\ RouteFor(RoutesOf(e)', r.machineId).program = r.program
                   /\ RouteFor(RoutesOf(e)', r.machineId).ccSlots =
                          IF HadSlots(r) THEN Some(normalizeCCSlots(r.ccSlots[1]))
                          ELSE RouteFor(RoutesOf(e), r.machineId).ccSlots
       /\ (ret'.op = "updateEntryRouteCC" /\ ret'.ok)
          => \A e \in EntryArgs, m \in CCMachines, cc \in CCArguments :
                (/\ IsEntry(e)
                 /\ m \in MachineSet(RoutesOf(e))
                 /\ UpdateEntryRouteCC(e, m, cc))
                => /\ RouteFor(RoutesOf(e)', m).program = RouteFor(RoutesOf(e), m).program
                   /\ RouteFor(RoutesOf(e)', m).ccSlots =
                          Some(IF cc = None THEN <<>> ELSE normalizeCCSlots(cc[1]))
       /\ (ret'.op = "pasteDraftIntoEntry" /\ ret'.force /\ ret'.value.ok)
          => \A m \in SharedMachines(ret'.entryId) :
                /\ RouteFor(RoutesIn(ActiveEntries', ret'.entryId), m).program = RouteFor(draft, m).program
                /\ RouteFor(RoutesIn(ActiveEntries', ret'.entryId), m).ccSlots =
                       RouteFor(RoutesOf(ret'.entryId), m).ccSlots
      ]_vars

\* C8's case: a forced paste overwrote a route that keeps its CC slots
C8_Witness ==
    /\ ret.op = "pasteDraftIntoEntry"
    /\ ret.force
    /\ ret.value.ok
    /\ IsEntry(ret.entryId)
    /\ \E m \in MachineSet(draft) \cap MachineSet(RoutesOf(ret.entryId)) :
           /\ RouteFor(RoutesOf(ret.entryId), m).program = Some(9)
           /\ RouteFor(RoutesOf(ret.entryId), m).ccSlots = Some(<< [cc |-> 74, value |-> 100] >>)

-----------------------------------------------------------------------------
(* Claims C3..C6: recallEntry, under SpecRecall.  A recall leaves the store *)
(* alone, so the routes it ran over are those of the entry afterwards.      *)

Recalled == ret.op = "recallEntry" /\ ret.value.found
RecalledRoutes == RoutesOf(ret.entryId)

PatchCalls == SelectSeq(midiOut, LAMBDA c : c.call = "sendPatch")
CCCalls(i) == SelectSeq(midiOut, LAMBDA c : c.call = "sendCC" /\ c.route = i)

\* the machine recallEntry runs route r on, and whether it has an output
RecallMachine(r) ==
    IF machinesGetById(r.machineId) # 0 THEN machinesGetById(r.machineId)
    ELSE machinesGetActive(machinesActiveId)
OutputResolves(r) == resolveMachineOut(RecallMachine(r)) # None

Dispatchable(r) == r.program # None /\ OutputResolves(r)

\* the indexes up to n of the routes that are dispatchable, in increasing order
RECURSIVE DispatchableIndexes(_, _)
DispatchableIndexes(routes, n) ==
    IF n = 0 THEN <<>>
    ELSE IF Dispatchable(routes[n]) THEN Append(DispatchableIndexes(routes, n - 1), n)
    ELSE DispatchableIndexes(routes, n - 1)

\* C3: the Program/Bank sends of a recall are, in route order, one for each
\* route that has a program and whose output resolves, whether or not a send
\* throws; with a program on each of the N routes and M outputs unresolvable
\* that is N - M sends
C3_DispatchPerResolvableRoute ==
    Recalled =>
        /\ [k \in 1..Len(PatchCalls) |-> PatchCalls[k].route]
               = DispatchableIndexes(RecalledRoutes, Len(RecalledRoutes))
        /\ (\A i \in 1..Len(RecalledRoutes) : RecalledRoutes[i].program # None)
               => Len(PatchCalls) = Len(RecalledRoutes)
                      - Cardinality({i \in 1..Len(RecalledRoutes) :
                                         ~OutputResolves(RecalledRoutes[i])})

\* C3's case: three routes with programs, the first without output, the send
\* of the second throws, and the third is sent all the same
C3_Witness ==
    /\ Recalled
    /\ Len(RecalledRoutes) = 3
    /\ \A i \in 1..3 : RecalledRoutes[i].program # None
    /\ ~OutputResolves(RecalledRoutes[1])
    /\ Len(PatchCalls) = 2
    /\ PatchCalls[1].route = 2 /\ PatchCalls[1].threw
    /\ PatchCalls[2].route = 3

\* C4 as stated: every recallEntry call emits exactly one recalledEntry
\* event, OK when it returns ok:true and KO when it returns ok:false
C4_EveryRecallEmitsOnce ==
    ret.op = "recallEntry" =>
        /\ Len(emitted) = 1
        /\ emitted[1].name = "recalledEntry"
        /\ emitted[1].status = IF ret.value.ok THEN "OK" ELSE "KO"

\* C4 amended: a recallEntry call that finds the entry in the active setlist
\* emits exactly one recalledEntry event, OK when it returns ok:true and KO
\* when it returns ok:false, and returns ok:false iff its error list is not
\* empty; a call that finds no entry returns ok:false and emits nothing
C4_FoundRecallEmitsOnce ==
    ret.op = "recallEntry" =>
        IF ret.value.found
        THEN /\ Len(emitted) = 1
             /\ emitted[1].name = "recalledEntry"
             /\ emitted[1].status = IF ret.value.ok THEN "OK" ELSE "KO"
             /\ ret.value.ok <=> ret.value.errors = <<>>
        ELSE emitted = <<>> /\ ~ret.value.ok /\ midiOut = <<>>

\* C4's case: a recall in which one route was sent, one had no output and
\* one had no program ended KO with one event
C4_Witness ==
    /\ Recalled
    /\ ~ret.value.ok
    /\ Len(ret.value.lines) = 2
    /\ Len(ret.value.errors) = 1
    /\ Len(emitted) = 1 /\ emitted[1].status = "KO"

\* C5 as stated: a driver call of the recall that throws, sendPatch or sendCC,
\* is recorded in the error list (ok:false, KO), and every route that has a
\* program and an output gets its sendPatch
C5_EveryThrowRecorded ==
    Recalled =>
        /\ (\E k \in 1..Len(midiOut) : midiOut[k].threw)
               => /\ ~ret.value.ok
                  /\ emitted[1].status = "KO"
                  /\ ret.value.errors # <<>>
        /\ \A i \in 1..Len(RecalledRoutes) :
               Dispatchable(RecalledRoutes[i])
                   => \E k \in 1..Len(PatchCalls) : PatchCalls[k].route = i

\* C5 amended: a throwing sendPatch is recorded, one error per throw, so the
\* recall returns ok:false with KO, and the CC slots of that route are not
\* sent; a throwing sendCC is caught and dropped: it adds no error and the
\* route counts as sent; neither keeps a later CC slot of the route or a
\* later route from being sent
C5_PatchThrowRecorded ==
    Recalled =>
        /\ Len(ret.value.errors) =
               Cardinality({k \in 1..Len(PatchCalls) : PatchCalls[k].threw})
               + Cardinality({i \in 1..Len(RecalledRoutes) :
                                  RecalledRoutes[i].program = None})
        /\ (\E k \in 1..Len(PatchCalls) : PatchCalls[k].threw)
               => ~ret.value.ok /\ emitted[1].status = "KO"
        /\ Len(ret.value.lines) =
               Cardinality({i \in 1..Len(RecalledRoutes) :
                   /\ RecalledRoutes[i].program # None
                   /\ \/ ~OutputResolves(RecalledRoutes[i])
                      \/ <<i, "patch">> \notin ret.faults})
        /\ \A i \in 1..Len(RecalledRoutes) :
               /\ Dispatchable(RecalledRoutes[i])
                      => \E k \in 1..Len(PatchCalls) : PatchCalls[k].route = i
               /\ Len(CCCalls(i)) =
                      IF /\ Dispatchable(RecalledRoutes[i])
                         /\ <<i, "patch">> \notin ret.faults
                         /\ RecalledRoutes[i].ccSlots # None
                      THEN Len(RecalledRoutes[i].ccSlots[1])
                      ELSE 0

\* C5's case: the sendPatch of the first route threw and both CC slots of a
\* later route threw; the recall is KO with one error and both slots tried
C5_Witness ==
    /\ Recalled
    /\ Len(PatchCalls) = 2
    /\ PatchCalls[1].threw /\ ~PatchCalls[2].threw
    /\ Len(CCCalls(PatchCalls[2].route)) = 2
    /\ \A k \in 1..2 : CCCalls(PatchCalls[2].route)[k].threw
    /\ ret.value.errors = <<"sendPatch">>
    /\ emitted[1].status = "KO"

\* C6: a recall sends nothing for a route whose machineId names no
\* configured machine
C6_UnknownMachineSkipped ==
    Recalled =>
        \A k \in 1..Len(midiOut) :
            RecalledRoutes[midiOut[k].route].machineId \in MachineIds

-----------------------------------------------------------------------------
(* Claims C9, C10: the order of entries and the hotkeys, under Spec *)

HotkeysOf(ss, id) == ss[IndexOfId(ss, id)].hotkeys

\* C9: moveEntry on an entry at (0-based) index i of a setlist of len entries
\* returns true and puts it at index clamp(i + delta, 0, len - 1), the other
\* entries keeping their relative order; when that index is i the list is
\* left as it was
C9_MoveEntryClamps ==
    [][(/\ ret'.op = "moveEntry"
        /\ IndexOfId(EntriesIn(setlists, ret'.setlistId), ret'.entryId) # 0)
          => LET es == EntriesIn(setlists, ret'.setlistId)
                 after == EntriesIn(setlists', ret'.setlistId)
                 i == IndexOfId(es, ret'.entryId) - 1
                 target == Max(0, Min(Len(es) - 1, i + ret'.delta))
             IN  /\ ret'.ok
                 /\ Len(after) = Len(es)
                 /\ after[target + 1] = es[i + 1]
                 /\ RemoveAt(after, target + 1) = RemoveAt(es, i + 1)
                 /\ target = i => after = es]_vars

\* C9's case: moveEntry by +2 returned true for the entry made first of the
\* three of a setlist; it is now the last and the two others kept their order
C9_Witness ==
    /\ ret.op = "moveEntry"
    /\ ret.ok
    /\ ret.delta = 2
    /\ Len(EntriesOf(ret.setlistId)) = 3
    /\ EntriesOf(ret.setlistId)[3].id = ret.entryId
    /\ ret.entryId < EntriesOf(ret.setlistId)[1].id
    /\ EntriesOf(ret.setlistId)[1].id < EntriesOf(ret.setlistId)[2].id

\* C10: every hotkey of a setlist targets an entry of that setlist; a
\* removeEntry that succeeds clears exactly the hotkeys that pointed to the
\* removed entry; assignHotkey refuses, changing nothing, an entry id that is
\* not in the setlist
C10_HotkeysTargetEntries ==
    /\ [](/\ \A si \in 1..Len(setlists) : \A k \in HotkeyLetters :
                 setlists[si].hotkeys[k] # NullId
                     => setlists[si].hotkeys[k] \in IdsOf(setlists[si].entries)
          /\ (ret.op = "assignHotkey" /\ ret.entryId \notin IdsOf(EntriesOf(ret.setlistId)))
                 => ~ret.ok)
    /\ [][/\ (ret'.op = "removeEntry" /\ ret'.ok)
             => \A s \in SetlistArgs, e \in AnyEntryArgs :
                   RemoveEntry(s, e)
                   => /\ e \notin IdsOf(EntriesOf(s)')
                      /\ \A k \in HotkeyLetters :
                            HotkeysOf(setlists', s)[k] =
                                IF HotkeysOf(setlists, s)[k] = e THEN NullId
                                ELSE HotkeysOf(setlists, s)[k]
          /\ (ret'.op = "assignHotkey" /\ ~ret'.ok)
             => setlists' = setlists /\ disk' = disk]_vars

\* C10's case: assignHotkey was refused for a valid key and an entry that
\* exists, but in the other setlist, while the key is held by an entry of
\* the setlist named
C10_Witness ==
    /\ ret.op = "assignHotkey"
    /\ ~ret.ok
    /\ ret.key = "a"
    /\ ret.setlistId \in SetlistArgs \ {NullId}
    /\ ret.entryId \in AnyEntryArgs \ ({NullId} \cup IdsOf(EntriesOf(ret.setlistId)))
    /\ HotkeysOf(setlists, ret.setlistId)["A"] \in IdsOf(EntriesOf(ret.setlistId))

-----------------------------------------------------------------------------
(* Claim C11: one hotkey letter per entry, under Spec *)

\* the letters of setlist id in ss that point to entry e
LettersOf(ss, id, e) == {k \in HotkeyLetters : HotkeysOf(ss, id)[k] = e}

\* C11: in every setlist an entry holds at most one hotkey letter, whatever
\* calls were made; assignHotkey for an entry that holds a different letter
\* returns false and leaves the hotkeys (and the saved document) unchanged
C11_OneHotkeyPerEntry ==
    /\ [](\A si \in 1..Len(setlists) : \A k1, k2 \in HotkeyLetters :
              (/\ setlists[si].hotkeys[k1] # NullId
               /\ setlists[si].hotkeys[k1] = setlists[si].hotkeys[k2]) => k1 = k2)
    /\ [][(/\ ret'.op = "assignHotkey"
            /\ IndexOfId(setlists, ret'.setlistId) # 0
            /\ ret'.entryId # NullId
            /\ LettersOf(setlists, ret'.setlistId, ret'.entryId)
                   \ {normalizeHotkey(ret'.key)} # {})
              => /\ ~ret'.ok
                 /\ setlists' = setlists
                 /\ disk' = disk]_vars

\* C11's case: assignHotkey of B was refused for an entry that holds A, and
\* B is still free afterwards
C11_Witness ==
    /\ ret.op = "assignHotkey"
    /\ ~ret.ok
    /\ ret.key = "B"
    /\ IndexOfId(setlists, ret.setlistId) # 0
    /\ ret.entryId # NullId
    /\ LettersOf(setlists, ret.setlistId, ret.entryId) = {"A"}
    /\ HotkeysOf(setlists, ret.setlistId)["B"] = NullId

-----------------------------------------------------------------------------
(* Claim C12: commitDraftAsEntry, under SpecCommit *)

AllEntryIds(ss) == UNION {IdsOf(ss[i].entries) : i \in 1..Len(ss)}

\* what the spec's Route shares with a Draft route: machine and program
RouteContent(routes) ==
    [i \in 1..Len(routes) |->
        [machineId |-> routes[i].machineId, program |-> routes[i].program]]

\* a commit of a non-empty Draft: ok, the Draft is cleared, and the setlist
\* that is active afterwards holds its former entries followed by exactly one
\* new Entry with the Draft's routes; every other setlist is as before
CommittedOneEntry ==
    LET before == EntriesIn(setlists, activeId')
        after == EntriesIn(setlists', activeId')
    IN  /\ ret'.ok
        /\ draft' = <<>>
        /\ IndexOfId(setlists', activeId') # 0
        /\ Len(after) = Len(before) + 1
        /\ SubSeq(after, 1, Len(before)) = before
        /\ after[Len(after)].id \notin AllEntryIds(setlists)
        /\ RouteContent(after[Len(after)].routes) = RouteContent(draft)
        /\ \A i \in 1..Len(setlists) :
               setlists[i].id # activeId' => setlists'[i] = setlists[i]
        /\ disk' = [setlists |-> setlists', activeId |-> activeId']

\* C12 as stated: with an empty Draft commitDraftAsEntry returns ok:false
\* and leaves store and Draft unchanged; with a non-empty Draft it appends
\* exactly one new Entry with the Draft's routes to the active setlist and
\* empties the Draft
C12_CommitAllOrNothing ==
    [][ret'.op = "commitDraftAsEntry"
          => IF draft = <<>>
             THEN /\ ~ret'.ok
                  /\ draft' = draft
                  /\ setlists' = setlists
                  /\ activeId' = activeId
                  /\ disk' = disk
             ELSE CommittedOneEntry]_vars

\* C12 amended: with an empty Draft commitDraftAsEntry returns ok:false,
\* creates no Entry and leaves the Draft and every existing setlist
\* unchanged; the store is unchanged when a setlist is active, and gains one
\* empty setlist, made active and saved, when none is.  With a non-empty
\* Draft it appends exactly one new Entry with the Draft's routes to the
\* setlist that is active afterwards and empties the Draft
C12_CommitCreatesOneEntryOrNone ==
    [][ret'.op = "commitDraftAsEntry"
          => IF draft = <<>>
             THEN /\ ~ret'.ok
                  /\ draft' = draft
                  /\ AllEntryIds(setlists') = AllEntryIds(setlists)
                  /\ IF IndexOfId(setlists, activeId) # 0
                     THEN setlists' = setlists /\ activeId' = activeId /\ disk' = disk
                     ELSE /\ Len(setlists') = Len(setlists) + 1
                          /\ SubSeq(setlists', 1, Len(setlists)) = setlists
                          /\ setlists'[Len(setlists')].entries = <<>>
                          /\ activeId' = setlists'[Len(setlists')].id
                          /\ disk' = [setlists |-> setlists', activeId |-> activeId']
             ELSE CommittedOneEntry]_vars

\* C12's case: a commit of a Draft of two routes succeeded after the last
\* setlist had been deleted; the new setlist holds the one new Entry
C12_Witness ==
    /\ ret.op = "commitDraftAsEntry"
    /\ ret.ok
    /\ draft = <<>>
    /\ Len(setlists) = 1
    /\ activeId = setlists[1].id
    /\ activeId # 1
    /\ Len(ActiveEntries) = 1
    /\ Len(ActiveEntries[1].routes) = 2

-----------------------------------------------------------------------------
(* Claims C13..C18: the remote keys and navigation, under SpecRemote *)

KeyPressed(k) == ret.op = "handleRemoteKey" /\ ret.key = k

NavigationKeys == {"1", "2", "3", "4", "5"}
LetterKeys == {k \in RemoteKeys : ToUpperCase(k) \in HotkeyLetters}

\* the hotkeys of the active setlist, none when there is no active setlist
ActiveHotkeys ==
    IF IndexOfId(setlists, activeId) = 0 THEN [k \in HotkeyLetters |-> NullId]
    ELSE HotkeysOf(setlists, activeId)

\* C13: the menu mode is main or power and nothing else, and every F8 press
\* flips it: main to power, power to main
C13_PowerMenuToggles ==
    /\ [](currentMenu \in {"main", "power"})
    /\ [][(ret'.op = "handleRemoteKey" /\ ret'.key = "8")
              => currentMenu' = IF currentMenu = "main" THEN "power" ELSE "main"]_vars

\* C13's case: an F8 press brought the mode back from power to main and
\* showed the status of a setlist with entries
C13_Witness ==
    /\ KeyPressed("8")
    /\ currentMenu = "main"
    /\ Len(emitted) = 1
    /\ emitted[1].name = "changedSetlist"
    /\ emitted[1].entry # NoEntry

\* C14: in power mode a key F1..F5 or a hotkey letter changes neither the
\* mode, the active setlist, the current entry, the Draft nor the store,
\* dispatches no MIDI and emits no event
C14_PowerModeIgnoresKeys ==
    [][(/\ ret'.op = "handleRemoteKey"
        /\ ret'.key \in NavigationKeys \cup LetterKeys
        /\ currentMenu = "power")
          => /\ UNCHANGED <<setlists, activeId, disk, draft, currentEntryId,
                            currentMenu, machinesActiveId>>
             /\ midiOut' = <<>>
             /\ emitted' = <<>>
             /\ ~ret'.threw]_vars

\* C14's case: the letter A, which is assigned, was pressed in power mode
\* and nothing was recalled
C14_Witness ==
    /\ KeyPressed("A")
    /\ currentMenu = "power"
    /\ ActiveHotkeys["A"] # NullId
    /\ midiOut = <<>>
    /\ emitted = <<>>

\* the calls that recall or navigate, and whether the last one did its work
NavigationOps ==
    {"activateEntry", "activateEntryDelta", "activateSetlistDelta", "setActiveSetlist"}
Navigated ==
    \/ ret.op \in NavigationOps /\ ret.ok
    \/ ret.op = "recallEntry" /\ ret.value.found

\* the last call was a key, F8 excepted, that the engine acted upon
KeyActedUpon ==
    /\ ret.op = "handleRemoteKey"
    /\ ret.key # "8"
    /\ (emitted # <<>> \/ midiOut # <<>>)

\* C15: after a recall or navigation call that did its work, and after a
\* remote key other than F8 that was acted upon (F6 and F7 in power mode
\* included), the menu mode is main
C15_ActionsReturnToMain ==
    (Navigated \/ KeyActedUpon) => currentMenu = "main"

RecalledEvents(events) ==
    SelectSeq(events, LAMBDA ev : ev.name = "recalledEntry")

\* C16: F3 in main mode with entries in the active setlist recalls an entry
\* of the active setlist: the current entry when one is selected, the first
\* entry when none is; with no entries in the active setlist F3 changes
\* nothing and dispatches nothing
C16_F3RecallsCurrentOrFirst ==
    [][(/\ ret'.op = "handleRemoteKey"
        /\ ret'.key = "3"
        /\ currentMenu = "main"
        /\ IndexOfId(setlists, activeId) # 0)
          => IF Len(ActiveEntries) = 0
             THEN /\ UNCHANGED <<setlists, activeId, disk, draft, currentEntryId,
                                 currentMenu>>
                  /\ midiOut' = <<>>
                  /\ emitted' = <<>>
             ELSE /\ Len(RecalledEvents(emitted')) = 1
                  /\ RecalledEvents(emitted')[1].entry \in IdsOf(ActiveEntries)
                  /\ currentEntryId \in IdsOf(ActiveEntries)
                         => RecalledEvents(emitted')[1].entry = currentEntryId
                  /\ currentEntryId = NullId
                         => RecalledEvents(emitted')[1].entry = ActiveEntries[1].id]_vars

\* the delta of a navigation call or key made from main mode, 0 for none
EntryDelta(r, menu) ==
    IF r.op = "activateEntryDelta" THEN r.delta
    ELSE IF r.op = "handleRemoteKey" /\ menu = "main" /\ r.key = "4" THEN -1
    ELSE IF r.op = "handleRemoteKey" /\ menu = "main" /\ r.key = "5" THEN 1
    ELSE 0
SetlistDelta(r, menu) ==
    IF r.op = "activateSetlistDelta" THEN r.delta
    ELSE IF r.op = "handleRemoteKey" /\ menu = "main" /\ r.key = "1" THEN -1
    ELSE IF r.op = "handleRemoteKey" /\ menu = "main" /\ r.key = "2" THEN 1
    ELSE 0

\* C17: a navigation by delta, called or keyed (F4/F5, F1/F2), from the
\* current entry at index i of len entries activates the entry at index
\* clamp(i + delta, 0, len - 1): it becomes the current entry and is
\* recalled; from the active setlist at index j of count setlists it makes
\* the setlist at index clamp(j + delta, 0, count - 1) the active one
C17_NavigationClamps ==
    [][/\ (EntryDelta(ret', currentMenu) # 0 /\ IndexOfId(ActiveEntries, currentEntryId) # 0)
          => LET i == IndexOfId(ActiveEntries, currentEntryId) - 1
                 target == Max(0, Min(Len(ActiveEntries) - 1,
                                      i + EntryDelta(ret', currentMenu)))
             IN  /\ currentEntryId' = ActiveEntries[target + 1].id
                 /\ Len(RecalledEvents(emitted')) = 1
                 /\ RecalledEvents(emitted')[1].entry = ActiveEntries[target + 1].id
                 /\ activeId' = activeId
       /\ (SetlistDelta(ret', currentMenu) # 0 /\ IndexOfId(setlists, activeId) # 0)
          => LET j == IndexOfId(setlists, activeId) - 1
                 target == Max(0, Min(Len(setlists) - 1,
                                      j + SetlistDelta(ret', currentMenu)))
             IN  /\ activeId' = setlists[target + 1].id
                 /\ emitted'[1].name = "changedSetlist"
                 /\ emitted'[1].setlist = setlists[target + 1].id]_vars

\* C17's case: 'next' from the last of two entries stayed on the last, which
\* was recalled again
C17_Witness ==
    /\ ret.op = "activateEntryDelta"
    /\ ret.delta = 1
    /\ Len(ActiveEntries) = 2
    /\ ret.from = ActiveEntries[2].id
    /\ currentEntryId = ActiveEntries[2].id
    /\ Len(midiOut) = 1

\* C18: in main mode, with an active setlist, a letter that the active
\* setlist's hotkeys do not assign yields one 'unassigned' remoteMessage, no
\* recall, no MIDI and the same current entry; a letter they assign makes the
\* mapped entry the current entry and recalls it, and no other
C18_HotkeyResolves ==
    [][(/\ ret'.op = "handleRemoteKey"
        /\ ret'.key \in LetterKeys
        /\ currentMenu = "main"
        /\ IndexOfId(setlists, activeId) # 0)
          => LET target == ActiveHotkeys[ToUpperCase(ret'.key)]
             IN  IF target = NullId
                 THEN /\ Len(emitted') = 1
                      /\ emitted'[1].name = "remoteMessage"
                      /\ emitted'[1].down = "unassigned"
                      /\ midiOut' = <<>>
                      /\ currentEntryId' = currentEntryId
                 ELSE /\ currentEntryId' = target
                      /\ Len(RecalledEvents(emitted')) = 1
                      /\ RecalledEvents(emitted')[1].entry = target
                      /\ Len(midiOut') = Len(RoutesOf(target))]_vars

\* C18's case: the letter B, assigned to the second entry, was pressed while
\* another entry was current; the second entry is current and was recalled
C18_Witness ==
    /\ KeyPressed("B")
    /\ Len(ActiveEntries) = 2
    /\ ActiveHotkeys["B"] = ActiveEntries[2].id
    /\ currentEntryId = ActiveEntries[2].id
    /\ Len(RecalledEvents(emitted)) = 1
    /\ RecalledEvents(emitted)[1].entry = ActiveEntries[2].id
    /\ Len(midiOut) = 1

-----------------------------------------------------------------------------
(* Claims C19, C20: the remote device, under SpecDriver *)

\* bytes lo..hi-1 of buffer n
BytesOf(n, lo, hi) == [k \in 1..(hi - lo) |-> <<n, lo + k - 1>>]

\* the bytes given to the port by the first m writes, in order
RECURSIVE WrittenBytes(_)
WrittenBytes(m) ==
    IF m = 0 THEN <<>>
    ELSE WrittenBytes(m - 1)
             \o BytesOf(remote.written[m].n, remote.written[m].lo, remote.written[m].hi)

\* the bytes of the first m buffers that _send accepted, in the order of the calls
RECURSIVE IssuedBytes(_)
IssuedBytes(m) ==
    IF m = 0 THEN <<>> ELSE IssuedBytes(m - 1) \o BytesOf(m, 0, remote.sent[m])

\* the bytes of the buffer in the drain loop that no write was given yet
RestOfBuffer ==
    IF remote.buf = None THEN <<>>
    ELSE BytesOf(remote.buf[1].n,
                 IF remote.pc \in {"write", "flush"}
                 THEN Min(remote.i + ChunkSize, remote.buf[1].len) ELSE remote.i,
                 remote.buf[1].len)

\* the bytes of the first m buffers of the queue
RECURSIVE QueuedBytes(_)
QueuedBytes(m) ==
    IF m = 0 THEN <<>>
    ELSE QueuedBytes(m - 1) \o BytesOf(remote.queue[m].n, 0, remote.queue[m].len)

NoTransportError == remote.portErrors = 0 /\ remote.writeErrors = 0

\* C19: as long as no transport error occurred, the bytes written to the
\* port, followed by the rest of the buffer being written and by the queued
\* buffers, are the bytes of the buffers in the order they were handed to
\* _send: nothing is reordered, duplicated, lost or interleaved
C19_StrictFifo ==
    NoTransportError =>
        WrittenBytes(Len(remote.written)) \o RestOfBuffer
            \o QueuedBytes(Len(remote.queue)) = IssuedBytes(Len(remote.sent))

\* C19's case: a 48-byte buffer was written in two chunks between the chunks
\* of the buffers issued before and after it, and all four buffers are out
C19_Witness ==
    /\ NoTransportError
    /\ Len(remote.sent) = 4
    /\ remote.sent[3] = 48
    /\ Len(remote.written) = 5
    /\ remote.written[3] = [n |-> 3, lo |-> 0, hi |-> 32]
    /\ remote.written[4] = [n |-> 3, lo |-> 32, hi |-> 48]
    /\ remote.written[5].n = 4
    /\ ~remote.sending

\* C20: once the port has reported an error the device is disabled and its
\* queue is empty, for good, and no later command or timer enqueues a buffer
C20_PortErrorDisables ==
    /\ [](remote.portErrors > 0 => remote.disabled /\ remote.queue = <<>>)
    /\ [][remote.portErrors > 0 => remote'.sent = remote.sent]_vars

-----------------------------------------------------------------------------
(* Claims C21, C22: the idle timer and the inbound lines, under SpecDriver *)

\* the step is an activity of the link: a command method was called or a line
\* came in from the remote
Activity == ret'.op \in Commands \cup {"key"}

\* the step is the callback of an idle timer
IdleFired == ret'.op = "idleTimeout"

\* C21: at most one idle timer is pending at any time; the display is
\* dim-idle exactly when none is pending, so that the sleep command of an
\* idle period is neither missed nor sent twice; the callback of the idle
\* timer enqueues exactly one sleep-brightness command and leaves the display
\* dim-idle; and every activity cancels the pending idle timer and starts a
\* new one
C21_IdleTimer ==
    /\ [](Cardinality(remote.idlePending) <= 1)
    /\ [](remote.sleeping <=> remote.idlePending = {})
    /\ [][IdleFired => /\ remote'.sent = Append(remote.sent, 3)
                       /\ remote'.sleeping
                       /\ remote'.idlePending = {}]_vars
    /\ [][Activity => /\ remote'.idleTimer # remote.idleTimer
                      /\ remote'.idlePending = {remote'.idleTimer}]_vars

\* the keys of the remote: the letters A..H and the digits 1..8
KeyAlphabet == HotkeyLetters \cup {"1", "2", "3", "4", "5", "6", "7", "8"}

\* the step took a line of the remote that is not blank
LineTaken == ret'.op = "key"

\* C22: for every line that is not blank exactly one event is emitted: a key
\* event with the upper-cased first character when that character is a key
\* of the remote, and otherwise a raw event with the whole line, so that no
\* other character reaches the engine as a keypress
C22_InboundAlphabet ==
    [][LineTaken =>
        LET s == trim(ret'.line)
            ch == ToUpperCase(s[1])
        IN  /\ Len(ret'.events) = 1
            /\ IF ch \in KeyAlphabet
               THEN ret'.events[1] = [name |-> "key", key |-> ch]
               ELSE ret'.events[1] = [name |-> "raw", line |-> s]]_vars

-----------------------------------------------------------------------------
(* Claim C23: no engine call raises, under SpecRemote *)

EngineCalls ==
    {"handleRemoteKey", "activateEntry", "activateEntryDelta",
     "activateSetlistDelta", "setActiveSetlist", "recallEntry"}

\* the calls among them that return a result
ResultCalls == EngineCalls \ {"handleRemoteKey"}

\* C23: no call of the engine ends in an exception, whether or not there is
\* an active setlist, and without an active setlist the calls that return a
\* result return ok: false
C23_NeverRaises ==
    ret.op \in EngineCalls =>
        /\ "threw" \in DOMAIN ret => ~ret.threw
        /\ ret.op \in ResultCalls /\ getActive(Data) = 0 =>
               IF ret.op = "recallEntry" THEN ~ret.value.ok ELSE ~ret.ok

-----------------------------------------------------------------------------
(* Claim C24: the numbers of a stored Route, under SpecRoutes *)

\* every Route of every entry of every setlist
StoredRoutes ==
    UNION {UNION {{setlists[i].entries[j].routes[k] :
                      k \in 1..Len(setlists[i].entries[j].routes)} :
                     j \in 1..Len(setlists[i].entries)} : i \in 1..Len(setlists)}

InMidiRange(n) == n \in 0..MidiMax

\* the CC slots of the Route are at most four, controller and value in range
SlotsInRange(r) ==
    r.ccSlots # None =>
        /\ Len(r.ccSlots[1]) <= MaxCCSlots
        /\ \A k \in 1..Len(r.ccSlots[1]) :
               InMidiRange(r.ccSlots[1][k].cc) /\ InMidiRange(r.ccSlots[1][k].value)

\* C24: every stored Route has its program, when it has one, in 0..127, and
\* at most four CC slots with controller and value in 0..127
C24_RoutesInRange ==
    \A r \in StoredRoutes :
        /\ r.program # None => InMidiRange(r.program[1])
        /\ SlotsInRange(r)

-----------------------------------------------------------------------------
(* Claims C25, C26: the persisted document, under SpecRoutes *)

Crashed == ret.op = "crash"

\* C26: the file at the store path always holds a complete document; when
\* the process has ended inside a save, the document is the store's state
\* before or after the change it was saving; and when a store call has
\* returned, the document is the store's state
C26_AtomicSave ==
    /\ disk # Torn
    /\ IF Crashed THEN disk \in {ret.before, Data} ELSE disk = Data

\* C26's case: the process ended between the write of the temporary file
\* and the rename, in a call that changed the store: the new document is in
\* the temporary file and the old one is still at the store path
C26_Witness ==
    /\ Crashed
    /\ ret.at = "written"
    /\ tmpFile = Some(Data)
    /\ disk = ret.before
    /\ disk # Data

-----------------------------------------------------------------------------
(* Claims C27..C30: the drain loop, under SpecDriver *)

\* the step is a call that hands buffers to _send: a command method, a line
\* of the remote, or the callback of a timer
Sender == ret'.op \in Commands \cup {"key", "idleTimeout", "offTimeout"}

\* the buffers _send accepted in the step
Accepted == Len(remote'.sent) - Len(remote.sent)

\* C27: at most one drain loop runs at any time, the sending flag is true
\* exactly while one runs, and a call that sends while a drain loop runs
\* only puts its buffers at the end of the queue: the loop is where it was
C27_SingleDrainLoop ==
    /\ [](remote.loops <= 1)
    /\ [](remote.sending <=> remote.loops = 1)
    /\ [](remote.sending <=> remote.pc # "idle")
    /\ [][Sender /\ remote.sending =>
             /\ remote'.sending /\ remote'.loops = 1
             /\ remote'.pc = remote.pc /\ remote'.buf = remote.buf
             /\ remote'.i = remote.i /\ remote'.written = remote.written
             /\ Len(remote'.queue) = Len(remote.queue) + Accepted
             /\ SubSeq(remote'.queue, 1, Len(remote.queue)) = remote.queue]_vars

\* C27's case: showText was called while the drain loop was waiting for the
\* write of a chunk, and its buffer is in the queue behind another
C27_Witness ==
    /\ ret.op = "showText"
    /\ remote.sending /\ remote.pc = "write"
    /\ Len(remote.queue) = 2
    /\ remote.queue[2].len = 48

\* the step wrote a chunk to the port
Wrote == Len(remote'.written) = Len(remote.written) + 1

\* the chunks of `written` are cut as _kick cuts them: none is empty or
\* longer than chunkSize, a buffer starts at offset 0, a chunk of the same
\* buffer starts where the one before ended, and the chunk before another
\* buffer is the last of its buffer unless a write failed
ChunksInOrder ==
    \A k \in 1..Len(remote.written) :
        LET c == remote.written[k]
        IN  /\ c.lo < c.hi /\ c.hi - c.lo <= ChunkSize
            /\ c.hi <= remote.sent[c.n]
            /\ c.hi - c.lo < ChunkSize => c.hi = remote.sent[c.n]
            /\ IF k > 1 /\ remote.written[k - 1].n = c.n
               THEN c.lo = remote.written[k - 1].hi
               ELSE c.lo = 0
            /\ k > 1 /\ remote.written[k - 1].n # c.n =>
                   /\ remote.written[k - 1].n < c.n
                   /\ remote.writeErrors = 0 =>
                          remote.written[k - 1].hi = remote.sent[remote.written[k - 1].n]

\* C28: the drain loop writes a buffer in consecutive chunks of at most
\* chunkSize bytes; a chunk is written only in the step where the port
\* answers the poll of the ready line with ready, with an error or with no
\* status; and from the write of a chunk until its flush is over no poll is
\* made and no chunk is written
C28_FlowControl ==
    /\ []ChunksInOrder
    /\ [][remote'.written # remote.written =>
             /\ Wrote
             /\ SubSeq(remote'.written, 1, Len(remote.written)) = remote.written
             /\ remote.pc = "get" /\ remote'.pc = "write"
             /\ ret'.op = "readyReply"
             /\ (ret'.err \/ ret'.status \in {None, Some(TRUE)})]_vars
    /\ [][remote.pc = "write" =>
             \/ remote'.pc = "write" /\ remote'.written = remote.written
             \/ ret'.op = "writeCallback" /\ remote'.pc \in {"flush", "idle"}
             \/ remote'.crashed]_vars
    /\ [][remote.pc = "flush" =>
             \/ remote'.pc = "flush" /\ remote'.written = remote.written
             \/ ret'.op = "drainCallback" /\ remote'.pc \in {"get", "idle"}
             \/ remote'.crashed]_vars

\* C28's case: the second chunk of a 48 byte buffer was written after the
\* ready line was found busy and then ready
C28_Witness ==
    /\ Len(remote.written) >= 2
    /\ \E k \in 2..Len(remote.written) :
           /\ remote.written[k] = [n |-> remote.written[k - 1].n, lo |-> 32, hi |-> 48]
           /\ remote.written[k - 1].hi - remote.written[k - 1].lo = ChunkSize
    /\ ret.op = "readyReply" /\ ~ret.err /\ ret.status = Some(TRUE)
    /\ remote.pc = "write"

\* the port answered the poll of the ready line with an error or without
\* a status
Unreadable == ret'.op = "readyReply" /\ (ret'.err \/ ret'.status = None)

\* C29: when the status of the ready line cannot be read (port.get hands
\* over an error or no status) the drain loop takes the line as ready: it
\* writes the chunk it was waiting to write in that same step, and does not
\* go to sleep for another poll
C29_FailOpen ==
    [][Unreadable =>
          /\ Wrote
          /\ remote'.written[Len(remote'.written)] =
                 [n |-> remote.buf[1].n, lo |-> remote.i,
                  hi |-> Min(remote.i + ChunkSize, remote.buf[1].len)]
          /\ remote'.pc = "write"]_vars

\* C29's cases: a chunk was written after port.get handed over no status
\* with no error, and the level of the line, busy, was not looked at when
\* there was an error
C29_Witness ==
    /\ ret.op = "readyReply" /\ ~ret.err /\ ret.status = None
    /\ remote.pc = "write"
    /\ remote.written # <<>>

C29_WitnessError ==
    /\ ret.op = "readyReply" /\ ret.err /\ ret.status = Some(FALSE)
    /\ remote.pc = "write"

\* the port has emitted "error", or port.write has called back with an error
TransportFailed == remote.portErrors > 0 \/ remote.writeErrors > 0

\* C30: once the transport has reported an error, no chunk is written to the
\* port any more, neither for a later command nor by the drain loop that was
\* running when the error came
C30_NoWriteAfterError ==
    [][TransportFailed => remote'.written = remote.written]_vars

-----------------------------------------------------------------------------
(* Claims C31..C34, C39: fail-stop and the timers, under SpecDriver *)

\* C31: after port.write has called back with an error the driver is
\* disabled and its queue is empty, as after a port error; no later command
\* is accepted or written; and the process is still running
C31_WriteFailStop ==
    /\ [](remote.writeErrors > 0 =>
              remote.disabled /\ remote.queue = <<>> /\ ~remote.crashed)
    /\ [][remote.writeErrors > 0 =>
              remote'.sent = remote.sent /\ remote'.written = remote.written]_vars

\* the step is a call of a command method or a line with a key
Activity32 == ret'.op \in Commands \cup {"key"}

\* C32: every command method and every key line clears the pending idle
\* timer and starts a new one and, when deep sleep is enabled, leaves an
\* off timer that was started in this call
C32_EveryPathResets ==
    [][Activity32 =>
          /\ remote'.idleTimer = remote.idleTimer + 1
          /\ remote'.idlePending = {remote'.idleTimer}
          /\ remote.deepSleepEnabled => remote'.offTimer = "fresh"]_vars

\* the buffers that restore the display, in the order _resetIdleTimer
\* sends them: normal brightness (3 bytes) when dim, power on (5 bytes)
\* when off
Restores(r) ==
    (IF r.sleeping THEN <<3>> ELSE <<>>) \o (IF r.vfdoff THEN <<5>> ELSE <<>>)

\* C33: a command method called while the display is dim or powered off
\* hands the restoring buffers to _send before its own payload, so the
\* buffers accepted in the call are the restoring ones followed by the
\* command's. Buffers are told apart by their length.
C33_RestoreFirst ==
    [][ret'.op \in Commands /\ (remote.sleeping \/ remote.vfdoff) =>
          /\ remote'.sent = remote.sent \o Restores(remote) \o <<PayloadLen(ret'.op)>>
          /\ ~remote'.sleeping /\ ~remote'.vfdoff]_vars

\* C34: the off timer sends the power-off command only when deep sleep is
\* enabled, the display is dim-idle, and there was no command and no key
\* since the idle timer that dimmed it was started (no idle timer pending,
\* the off timer started together with it)
C34_PowerOffOnlyDeepSleep ==
    [][ret'.op = "offTimeout" =>
          /\ remote.deepSleepEnabled
          /\ remote.sleeping
          /\ remote.idlePending = {}
          /\ remote.offTimer = "fresh"]_vars


\* C39: while the driver is not disabled and no drain loop runs, the queue
\* is empty: no buffer waits without a loop that will write it
C39_NoStrandedCommand ==
    ~remote.disabled /\ ~remote.sending => remote.queue = <<>>

-----------------------------------------------------------------------------
(* Claim C35: duplicateEntry, under SpecCopy *)

\* every id of a setlist or of an entry in the setlists ss
IdsIn(ss) ==
    {ss[i].id : i \in 1..Len(ss)}
        \cup UNION {{ss[i].entries[j].id : j \in 1..Len(ss[i].entries)} :
                        i \in 1..Len(ss)}

\* the entries of ss whose routes are not what they are in tt
RoutesChanged(ss, tt) ==
    {e \in IdsIn(ss) :
        \E i \in 1..Len(ss), k \in 1..Len(tt) :
            \E j \in 1..Len(ss[i].entries), l \in 1..Len(tt[k].entries) :
                /\ ss[i].entries[j].id = e /\ tt[k].entries[l].id = e
                /\ ss[i].entries[j].routes # tt[k].entries[l].routes}

\* C35: a duplicateEntry that returns a copy appends one entry to the
\* setlist, with an id that no setlist and no entry had, and with the routes
\* and CC slots of its source; the entries that were there, the source
\* among them, and the hotkeys are as they were, and no letter is given to
\* the copy. And no call ever changes the routes of two entries, so a change
\* of a copy's routes or CC slots leaves its source alone, and the reverse.
C35_DuplicateIndependent ==
    /\ [][ret'.op = "duplicateEntry" /\ ret'.ok =>
             LET es == ActiveEntries
                 copy == ActiveEntries'[Len(ActiveEntries')]
                 src == es[IndexOfId(es, ret'.entryId)]
             IN  /\ activeId' = activeId
                 /\ ActiveEntries' = Append(es, copy)
                 /\ copy.id = ret'.copy /\ copy.id \notin IdsIn(setlists)
                 /\ copy.routes = src.routes
                 /\ \A i \in 1..Len(setlists) :
                        /\ setlists'[i].hotkeys = setlists[i].hotkeys
                        /\ \A k \in HotkeyLetters : setlists'[i].hotkeys[k] # copy.id
                        /\ setlists[i].id # activeId => setlists'[i] = setlists[i]]_vars
    /\ [][Cardinality(RoutesChanged(setlists, setlists')) <= 1]_vars

\* C35's case: an entry that holds the letter A and a route with a CC slot
\* was duplicated
C35_Witness ==
    /\ ret.op = "duplicateEntry" /\ ret.ok
    /\ \E j \in 1..Len(ActiveEntries) :
           /\ ActiveEntries[j].id = ret.entryId
           /\ setlists[getById(Data, activeId)].hotkeys["A"] = ret.entryId
           /\ \E i \in 1..Len(ActiveEntries[j].routes) :
                  ActiveEntries[j].routes[i].ccSlots = Some(<< [cc |-> 1, value |-> 10] >>)

-----------------------------------------------------------------------------
(* Claim C36: the active setlist of the store, under Spec *)

\* the setlists of the state that are gone after the step
Removed == {id \in IdsOf(setlists) : id \notin IdsOf(setlists')}

\* C36: the store's active id is null exactly when there is no setlist and
\* otherwise is the id of a setlist; a removeSetlist of the active setlist
\* makes the first of the remaining setlists active (none when none
\* remains), a removeSetlist of another one, like a refused one, leaves the
\* active id as it was
C36_ActivePointer ==
    /\ [](activeId = NullId <=> setlists = <<>>)
    /\ [](activeId # NullId => getById(Data, activeId) # 0)
    /\ [][ret'.op = "removeSetlist" =>
             IF ret'.ok /\ activeId \in Removed
             THEN activeId' = IF setlists' = <<>> THEN NullId ELSE setlists'[1].id
             ELSE activeId' = activeId]_vars

\* C36's case: the older of two setlists was removed, and the one that is
\* left, whether it was the active one before or not, is active
C36_Witness ==
    /\ ret.op = "removeSetlist" /\ ret.ok
    /\ Len(setlists) = 1
    /\ setlists[1].id > 1
    /\ activeId = setlists[1].id
    /\ disk.activeId = activeId

\* C36's other case: the last setlist was removed and none is active
C36_WitnessEmpty ==
    /\ ret.op = "removeSetlist" /\ ret.ok
    /\ setlists = <<>> /\ activeId = NullId

-----------------------------------------------------------------------------
(* Claims C37, C38, C40: the engine, under SpecRemote *)

\* C37: the current entry of the engine is null or the id of an entry of
\* the active setlist
C37_CurrentEntryInActive ==
    currentEntryId = NullId \/ IsEntry(currentEntryId)

\* the step is a call that was refused for its argument: a setlist id that
\* names no setlist, an entry id that names no entry of the active setlist,
\* or a store call that returned false or null
Rejected ==
    \/ ret'.op = "setActiveSetlist" /\ IndexOfId(setlists, ret'.setlistId) = 0
    \/ ret'.op \in {"activateEntry", "recallEntry"} /\ ~IsEntry(ret'.entryId)
    \/ ret'.op \in {"addEntry", "removeEntry", "removeSetlist", "assignHotkey"}
           /\ ~ret'.ok

\* C38: a call refused for an invalid argument changes nothing in the store
\* and in the engine, sends no MIDI and emits no event
C38_RejectedChangesNothing ==
    [][Rejected =>
          /\ UNCHANGED <<setlists, activeId, disk, tmpFile, draft, currentEntryId,
                         currentMenu, machinesActiveId, nextId>>
          /\ midiOut' = <<>>
          /\ emitted' = <<>>]_vars

-----------------------------------------------------------------------------
(* Claim C40: recalls by keys of the remote, under SpecStage *)

\* the buffers the device has accepted and not written in full, oldest first
Outstanding(r) == r.buf \o r.queue

\* buffers of the given lengths as _send numbers them after those of r
Numbered(r, lens) ==
    [k \in 1..Len(lens) |-> [n |-> Len(r.sent) + k, len |-> lens[k]]]

\* C40: only the step of a key makes MIDI calls, and they are those of one
\* recall, all of them and in
\* the order of the cue's routes, so no call of another recall comes in
\* between; and the key that recalls a cue puts the buffers of clearVFD,
\* showText and the status tag one after the other at the end of the
\* device's queue, after the buffer that restores a dim display and with
\* nothing in between
C40_RecallsDoNotInterleave ==
    /\ [][ret'.op # "keyLine" => midiOut' = <<>> \/ UNCHANGED <<midiOut, emitted>>]_vars
    /\ [][ret'.op = "keyLine" /\ midiOut' # <<>> =>
             /\ Len(RecalledEvents(emitted')) = 1
             /\ LET e == RecalledEvents(emitted')[1].entry
                    routes == RoutesIn(ActiveEntries, e)
                IN  /\ IsEntry(e)
                    /\ midiOut' = RecallRoutes(machinesActiveId, routes, Len(routes),
                                               ret'.faults).midi]_vars
    /\ [][ret'.op = "keyLine" /\ RecalledEvents(emitted') # <<>> =>
             /\ Len(RecalledEvents(emitted')) = 1
             /\ Outstanding(remote') =
                    Outstanding(remote)
                        \o Numbered(remote, Restores(remote) \o <<2, 48, 8>>)]_vars

\* C40's case: a second key recalled a cue of two MIDI messages while the
\* mark of the first key was still to come and the display commands of the
\* first recall were still in the queue
C40_Witness ==
    /\ ret.op = "keyLine"
    /\ Len(RecalledEvents(emitted)) = 1
    /\ Len(midiOut) = 2
    /\ Len(timers) = 2
    /\ remote.sending
    /\ Len(remote.queue) >= 5

====
